---- MODULE Spec2Model ----
(***************************************************************************)
(* Model of the marstek-energy-trading engine (service/service.go), its    *)
(* price window analyzer (service/analyzer.go) and its trade recorder.     *)
(*                                                                         *)
(* Units.  Time is in minutes; minute 0 is the local midnight of the day   *)
(* whose prices the provider serves.  A float64 price is an integer number *)
(* of price points (1 point = 0.01 EUR/kWh).  A decimal.Decimal is an      *)
(* integer number of 1/DecScale price points.  Energy is in watt-minutes.  *)
(***************************************************************************)
EXTENDS Integers, Sequences, FiniteSets, TLC

VARIABLE clock      \* wall clock, minutes

\* ---------------------------------------------------------------- bounds
\* number of 15-minute price points the provider serves for a day
SlotsPerDay == 4
\* the clock is observed every StepMinutes minutes
StepMinutes == 8
\* the clock stops advancing here (one slot past the end of the day)
MaxClock == 64
\* sessions are only started while the ledger holds fewer trades than this
MaxTrades == 2
\* resolution of decimal values: 1/DecScale price points
DecScale == 100
\* the process exits and starts again at most this many times
MaxRestarts == 1
\* at most this many external calls fail (device, file, price provider)
MaxFaults == 2
\* longest price list handed to the analyzer on its own
MaxSeriesLen == 5
MaxWindowSlots == 9
MaxLedger == 3
\* the select loop is observed every LoopStep minutes
LoopStep == 5
\* the select loop is followed up to this time (past the first midnight)
MaxClockLoop == 75
\* the end of the loop is followed up to this time
MaxClockShutdown == 40
\* the refresh of the power command is observed every RefreshStep minutes
RefreshStep == 2
\* the refresh of the power command is followed up to this time
MaxClockRefresh == 20
\* the price checks are followed up to this time (past the second midnight)
MaxClockRollover == 135

\* ------------------------------------------------------ program constants
SlotMinutes == 15
MinPriceSpread == 5
BatteryEfficiencyPct == 90
BatteryCapacityWh == 500
BatteryMinSOCPct == 11
MaxCyclesPerDay == 2
ChargePowerW == 2000
DischargePowerW == 2000
PassiveModeTimeoutS == 300
ErrorCooldownMinutes == 15
\* period of the price ticker
PriceCheckMinutes == 15
\* the rollover is done in the first minutes of hour 0
MidnightWindowMinutes == 15

DayMinutes == SlotsPerDay * SlotMinutes
\* time.Time{} : far before every time of the model
ZeroTime == 0 - 1000 * DayMinutes

\* The day is shortened to SlotsPerDay slots.  An hour of the short day is
\* one slot long, so the first 15 minutes of the day are still "hour 0,
\* minute < 15"; an hour the code names (13, 23) is the slot at the same
\* fraction of the day, and the zone (Europe/Amsterdam) is one hour east.
HourMinutes == SlotMinutes
Hour(t) == (t % DayMinutes) \div HourMinutes
Minute(t) == t % HourMinutes
FetchHour == (13 * SlotsPerDay) \div 24
SummaryHour == (23 * SlotsPerDay) \div 24
TZOffsetMinutes == HourMinutes

\* t.Truncate(24 * time.Hour): the last UTC midnight at or before local time t
Truncate24h(t) == ((t - TZOffsetMinutes) \div DayMinutes) * DayMinutes

\* ------------------------------------------------------------ arithmetic
\* a / b rounded half away from zero, b > 0 (decimal.DivRound, and the
\* nearest decimal of a float64 quotient)
RoundDiv(a, b) ==
    IF a >= 0 THEN (2 * a + b) \div (2 * b)
    ELSE 0 - ((2 * (0 - a) + b) \div (2 * b))

\* math.Ceil(a / b), a >= 0, b > 0
CeilDiv(a, b) == (a + b - 1) \div b

\* decimal.NewFromFloat of a whole number of price points
NewFromFloat(p) == p * DecScale

\* ----------------------------------------------------------------- analyzer
NilPlan == [IsNil |-> TRUE]

\* &TradingPlan{} : the zero plan
\* variant: no plan at all in place of the empty plan
EmptyPlan_Nil ==
    [IsNil |-> TRUE, Date |-> ZeroTime, ChargeWindows |-> <<>>,
     DischargeWindows |-> <<>>, Cycles |-> <<>>, MinPrice |-> 0,
     MaxPrice |-> 0, Spread |-> 0, IsProfitable |-> FALSE]

EmptyPlan ==
    [IsNil |-> FALSE, Date |-> ZeroTime, ChargeWindows |-> <<>>,
     DischargeWindows |-> <<>>, Cycles |-> <<>>, MinPrice |-> 0,
     MaxPrice |-> 0, Spread |-> 0, IsProfitable |-> FALSE]

\* variant: the day of the wall clock in place of the day of t
localMidnight_OfClock(t) == (clock \div DayMinutes) * DayMinutes

localMidnight(t) == (t \div DayMinutes) * DayMinutes

\* sort.Slice by Time (insertion of each point before the first later one)
RECURSIVE InsertByTime(_, _)
InsertByTime(p, s) ==
    IF s = <<>> THEN <<p>>
    ELSE IF p.Time < Head(s).Time THEN <<p>> \o s
    ELSE <<Head(s)>> \o InsertByTime(p, Tail(s))

RECURSIVE SortByTime(_)
SortByTime(s) ==
    IF s = <<>> THEN <<>>
    ELSE InsertByTime(s[Len(s)], SortByTime(SubSeq(s, 1, Len(s) - 1)))

RECURSIVE MinValue(_)
MinValue(s) ==
    IF Len(s) = 1 THEN s[1].Value
    ELSE LET m == MinValue(Tail(s)) IN IF s[1].Value < m THEN s[1].Value ELSE m

RECURSIVE MaxValue(_)
MaxValue(s) ==
    IF Len(s) = 1 THEN s[1].Value
    ELSE LET m == MaxValue(Tail(s)) IN IF s[1].Value > m THEN s[1].Value ELSE m

\* slots needed for a full charge or discharge: ceil(capacity / power * 4);
\* capacity in Wh*100 (usable capacity keeps two decimals of the percentage)
\* variant: whole slots only, the started slot dropped
calculateWindowSize_Floor(capacityWh100, powerW) ==
    IF powerW <= 0 THEN 8
    ELSE LET slots == (capacityWh100 * 4) \div (powerW * 100)
         IN  IF slots < 1 THEN 1 ELSE slots

calculateWindowSize(capacityWh100, powerW) ==
    IF powerW <= 0 THEN 8
    ELSE LET slots == CeilDiv(capacityWh100 * 4, powerW * 100)
         IN  IF slots < 1 THEN 1 ELSE slots

\* sum of the windowSize values starting at the 0-based index startIdx;
\* windowAverage is this sum divided by windowSize
RECURSIVE windowSum(_, _, _)
windowSum(prices, startIdx, windowSize) ==
    IF windowSize = 0 THEN 0
    ELSE prices[startIdx + 1].Value + windowSum(prices, startIdx + 1, windowSize - 1)

\* the sliding scan of findBestWindow for the highest average: the candidate
\* at i replaces the best one only when its average is strictly greater
RECURSIVE slideHighest(_, _, _, _, _)
slideHighest(prices, i, windowSize, bestStart, bestSum) ==
    IF i + windowSize > Len(prices) THEN [start |-> bestStart, sum |-> bestSum]
    ELSE LET s == windowSum(prices, i, windowSize)
         IN  IF s > bestSum
             THEN slideHighest(prices, i + 1, windowSize, i, s)
             ELSE slideHighest(prices, i + 1, windowSize, bestStart, bestSum)

\* variant: the first window of the range, whatever its average
findBestWindow_First(prices, startIdx, windowSize) ==
    IF startIdx + windowSize > Len(prices)
    THEN [found |-> FALSE, start |-> 0, sum |-> 0]
    ELSE [found |-> TRUE, start |-> startIdx,
          sum |-> windowSum(prices, startIdx, windowSize)]

\* findBestWindow(prices, startIdx, windowSize, findLowest = false)
findBestWindow(prices, startIdx, windowSize) ==
    IF startIdx + windowSize > Len(prices)
    THEN [found |-> FALSE, start |-> 0, sum |-> 0]
    ELSE LET r == slideHighest(prices, startIdx + 1, windowSize, startIdx,
                               windowSum(prices, startIdx, windowSize))
         IN  [found |-> TRUE, start |-> r.start, sum |-> r.sum]

\* variant: a discharge average equal to the break-even price is accepted
pairQualifies_AtBreakEven(cSum, cSize, dSum, dSize, efficiencyPct, minSpread) ==
    /\ dSum * cSize * efficiencyPct >= cSum * dSize * 100
    /\ dSum * cSize - cSum * dSize >= minSpread * cSize * dSize

\* the profitability test of findBestCycle on window sums, with the efficiency
\* in percent and the minimum spread in price points:
\*   dischargeAvg <= chargeAvg / efficiency  or  dischargeAvg - chargeAvg < minSpread
\* rejects the pair
pairQualifies(cSum, cSize, dSum, dSize, efficiencyPct, minSpread) ==
    /\ dSum * cSize * efficiencyPct > cSum * dSize * 100
    /\ dSum * cSize - cSum * dSize >= minSpread * cSize * dSize

\* profit = dischargeAvg * efficiency - chargeAvg, times 100 * cSize * dSize
pairProfit(cSum, cSize, dSum, dSize, efficiencyPct) ==
    dSum * cSize * efficiencyPct - cSum * dSize * 100

NoCycle == [found |-> FALSE]

MakeCycle(prices, chargeStart, cSize, cSum, dischargeStart, dSize, dSum, efficiencyPct) ==
    [found |-> TRUE,
     ChargeWindow |->
        [Start |-> prices[chargeStart + 1].Time,
         End |-> prices[chargeStart + cSize].Time + SlotMinutes,
         Sum |-> cSum, Size |-> cSize],
     DischargeWindow |->
        [Start |-> prices[dischargeStart + 1].Time,
         End |-> prices[dischargeStart + dSize].Time + SlotMinutes,
         Sum |-> dSum, Size |-> dSize],
     Profit |-> pairProfit(cSum, cSize, dSum, dSize, efficiencyPct)]

\* variant: the discharge search starts one slot after the charge start
dischargeSearchStart_NextSlot(chargeStart, chargeWindowSize) == chargeStart + 1

\* discharge must start after charge ends
dischargeSearchStart(chargeStart, chargeWindowSize) == chargeStart + chargeWindowSize

\* the loop of findBestCycle from chargeStart on, best holding the best cycle
\* found so far
RECURSIVE cycleScan(_, _, _, _, _, _, _)
cycleScan(prices, chargeStart, cSize, dSize, efficiencyPct, minSpread, best) ==
    IF chargeStart + cSize > Len(prices) THEN best
    ELSE LET cSum == windowSum(prices, chargeStart, cSize)
             dSearch == dischargeSearchStart(chargeStart, cSize)
             d == findBestWindow(prices, dSearch, dSize)
             next ==
                IF dSearch + dSize > Len(prices) THEN best
                ELSE IF ~d.found THEN best
                ELSE IF ~pairQualifies(cSum, cSize, d.sum, dSize, efficiencyPct, minSpread)
                     THEN best
                ELSE IF best.found
                        /\ pairProfit(cSum, cSize, d.sum, dSize, efficiencyPct)
                               <= best.Profit
                     THEN best
                ELSE MakeCycle(prices, chargeStart, cSize, cSum, d.start, dSize, d.sum,
                               efficiencyPct)
         IN  cycleScan(prices, chargeStart + 1, cSize, dSize, efficiencyPct, minSpread,
                       next)

findBestCycle(prices, startIdx, cSize, dSize, efficiencyPct, minSpread) ==
    cycleScan(prices, startIdx, cSize, dSize, efficiencyPct, minSpread, NoCycle)

\* variant: the search cursor stays at the first slot
findSlotIndex_First(prices, t) == IF Len(prices) = 0 THEN 0 - 1 ELSE 0

\* 0-based index of the first slot starting at or after t, -1 if none
findSlotIndex(prices, t) ==
    LET idx == {i \in 1..Len(prices) : prices[i].Time >= t}
    IN  IF idx = {} THEN 0 - 1
        ELSE (CHOOSE i \in idx : \A j \in idx : i <= j) - 1

\* the cycle search loop of AnalyzePrices, round i with the given cursor
RECURSIVE cycleLoop(_, _, _, _, _, _, _, _, _)
cycleLoop(prices, i, maxCycles, searchStartIdx, cSize, dSize, efficiencyPct, minSpread, cycles) ==
    IF i >= maxCycles THEN cycles
    ELSE LET c == findBestCycle(prices, searchStartIdx, cSize, dSize, efficiencyPct,
                                minSpread)
         IN  IF ~c.found THEN cycles
             ELSE LET nxt == findSlotIndex(prices, c.DischargeWindow.End)
                  IN  IF nxt < 0 \/ nxt >= Len(prices)
                      THEN Append(cycles, c)
                      ELSE cycleLoop(prices, i + 1, maxCycles, nxt, cSize, dSize,
                                     efficiencyPct, minSpread, Append(cycles, c))

\* variant: one more round of the cycle search than configured
maxCyclesOf_OneMore(configured) ==
    (IF configured <= 0 THEN 2 ELSE configured) + 1

\* the number of search rounds: the configured value, 2 when it is not positive
maxCyclesOf(configured) == IF configured <= 0 THEN 2 ELSE configured

AnalyzePrices(prices, cfg) ==
    IF Len(prices) = 0 THEN EmptyPlan
    ELSE LET sortedByTime == SortByTime(prices)
             minPrice == MinValue(sortedByTime)
             maxPrice == MaxValue(sortedByTime)
             usable100 == cfg.BatteryCapacityWh * (100 - cfg.BatteryMinSOCPct)
             cSize == calculateWindowSize(usable100, cfg.ChargePowerW)
             dSize == calculateWindowSize(usable100, cfg.DischargePowerW)
             maxCycles == maxCyclesOf(cfg.MaxCyclesPerDay)
             cycles == cycleLoop(sortedByTime, 0, maxCycles, 0, cSize, dSize,
                                 cfg.EfficiencyPct, cfg.MinPriceSpread, <<>>)
         IN  IF Len(sortedByTime) < cSize \/ Len(sortedByTime) < dSize
             THEN [EmptyPlan EXCEPT !.Date = localMidnight(sortedByTime[1].Time),
                                    !.MinPrice = minPrice, !.MaxPrice = maxPrice,
                                    !.Spread = maxPrice - minPrice]
             ELSE [IsNil |-> FALSE,
                   Date |-> localMidnight(sortedByTime[1].Time),
                   ChargeWindows |-> [k \in 1..Len(cycles) |-> cycles[k].ChargeWindow],
                   DischargeWindows |-> [k \in 1..Len(cycles) |-> cycles[k].DischargeWindow],
                   Cycles |-> cycles,
                   MinPrice |-> minPrice, MaxPrice |-> maxPrice,
                   Spread |-> maxPrice - minPrice,
                   IsProfitable |-> Len(cycles) > 0]

\* Service.analyzerConfig: the analyzer's view of the service configuration
analyzerConfig ==
    [EfficiencyPct |-> BatteryEfficiencyPct, MinPriceSpread |-> MinPriceSpread,
     BatteryCapacityWh |-> BatteryCapacityWh, BatteryMinSOCPct |-> BatteryMinSOCPct,
     ChargePowerW |-> ChargePowerW, DischargePowerW |-> DischargePowerW,
     MaxCyclesPerDay |-> MaxCyclesPerDay]

\* value of the slot holding t, or none
GetCurrentPrice(prices, t) ==
    LET idx == {i \in 1..Len(prices) :
                   t >= prices[i].Time /\ t < prices[i].Time + SlotMinutes}
    IN  IF idx = {} THEN [ok |-> FALSE, value |-> 0]
        ELSE [ok |-> TRUE,
              value |-> prices[CHOOSE i \in idx : \A j \in idx : i <= j].Value]

\* variant: the end of a window belongs to it
InWindows_EndInclusive(ws, t) == \E k \in 1..Len(ws) : t >= ws[k].Start /\ t <= ws[k].End

InWindows(ws, t) == \E k \in 1..Len(ws) : t >= ws[k].Start /\ t < ws[k].End

IsInChargeWindow(plan, t) == InWindows(plan.ChargeWindows, t)

IsInDischargeWindow(plan, t) == InWindows(plan.DischargeWindows, t)

ShouldTrade(plan) ==
    plan.IsProfitable /\ (Len(plan.ChargeWindows) > 0 \/ Len(plan.DischargeWindows) > 0)

\* ------------------------------------------------------------- environment
\* the price lists (in price points, one per slot) the provider can serve
PriceSeries ==
    { <<5, 15, 25, 10>>,
      <<10, 0, 25, 10>>,
      <<10, 11, 12, 11>>,
      <<4, 2, 1, 10>> }

\* makePrices: one point per 15-minute slot from baseTime on
makePrices(baseTime, values) ==
    [i \in 1..Len(values) |->
        [Time |-> baseTime + (i - 1) * SlotMinutes, Value |-> values[i]]]

\* state of charge values the status query can report
SOCValues == {BatteryMinSOCPct, 100}

\* the same with a battery half full
ReportedSOCs == {BatteryMinSOCPct, 50, 100}

StateIdle == "idle"
StateCharging == "charging"
StateDischarging == "discharging"
ActionCharge == "charge"
ActionDischarge == "discharge"

\* a trade of an earlier day, as found in the trade file at first startup
OldCharge(price) ==
    [Timestamp |-> 0 - DayMinutes, Action |-> ActionCharge, PriceEUR |-> price,
     PowerW |-> ChargePowerW, DurationS |-> SlotMinutes * 60,
     EnergyKWh |-> ChargePowerW * SlotMinutes, StartSOC |-> 50, EndSOC |-> 100]

\* json.MarshalIndent of the trade list: one tuple of field values per trade
MarshalTrades(ts) ==
    [i \in 1..Len(ts) |->
        <<ts[i].Timestamp, ts[i].Action, ts[i].PriceEUR, ts[i].PowerW,
          ts[i].DurationS, ts[i].EnergyKWh, ts[i].StartSOC, ts[i].EndSOC>>]

\* json.Unmarshal of a trade file
UnmarshalTrades(d) ==
    [i \in 1..Len(d) |->
        [Timestamp |-> d[i][1], Action |-> d[i][2], PriceEUR |-> d[i][3],
         PowerW |-> d[i][4], DurationS |-> d[i][5], EnergyKWh |-> d[i][6],
         StartSOC |-> d[i][7], EndSOC |-> d[i][8]]]

\* trade files present before the first startup
InitialLedgers ==
    { <<>>, MarshalTrades(<<OldCharge(NewFromFloat(9))>>) }

NoTick == [ran |-> FALSE]

\* a file that does not exist, and a file holding the given content
NoFile == [exists |-> FALSE, data |-> <<>>]
File(d) == [exists |-> TRUE, data |-> d]

\* saveTrades has not been called
NoSave == [old |-> <<>>, new |-> <<>>, failed |-> FALSE]

\* no query has been answered
NoReport == [ran |-> FALSE]

\* the ticks are not being recorded
NoTrail == [on |-> FALSE, ticks |-> <<>>]

\* the operations on s.mu are not recorded
NoLocks == [on |-> FALSE, ops |-> <<>>, helper |-> <<>>]

\* no battery-status query has been made
NoQuery == [replies |-> <<>>, sent |-> <<>>, status |-> <<>>, err |-> "nil"]

VARIABLES
    series,             \* the price list the provider serves for the day
    published,          \* the provider already serves the next day's prices
    pc,                 \* "new" after New, "running" in the loop of Start, "failed"
    tickDue,            \* the one-minute ticker has fired
    state,
    currentPlan,
    todayPrices,
    lastPassiveRefresh,
    currentTradeStart,
    currentTradePrice,
    currentTradeSOC,
    lastChargePrice,
    lastErrorNotify,
    telegramEnabled,    \* the notifier is configured
    restarts,           \* number of process exits so far
    faults,             \* number of failed external calls so far
    trades,             \* Recorder.trades
    disk,               \* content of trades.json
    deviceMode,         \* last command the battery accepted
    cmds,               \* device commands issued by the last tick
    lastTick,           \* inputs and pre-state of the tick that just ended
    crashCost,          \* lastChargePrice when the process last exited
    chargeSeen,         \* this process loaded a charge trade or started a charge session
    cfg,                \* the analyzer configuration in use
    tomorrowPrices,
    lastMidnightSwap,
    due,                \* periodic tasks whose ticker has a value waiting (tick is tickDue)
    priceNext,          \* next time the 15-minute price ticker fires
    running,            \* the handler the loop is blocked in, waiting for an external call
    shutdown,           \* the context of Start is cancelled
    io,                 \* network calls made by the last handler, with the lock state at each
    errorSends,         \* times at which this process sent an error notification
    swaps,              \* times at which this process ran the midnight rollover
    starved,            \* tasks whose ticker value waited while time passed in another task's call
    tmp,                \* trades.json.tmp
    saving,             \* the last saveTrades: the file before it, the file it writes, its outcome
    report,             \* what the last aggregation queries returned
    trail,              \* the ticks run so far, when they are being recorded
    query,              \* the last battery-status query of the UDP client
    mu                  \* the operations of the last tick on s.mu, when they are being recorded

engineVars ==
    <<state, currentPlan, todayPrices, lastPassiveRefresh, currentTradeStart,
      currentTradePrice, currentTradeSOC, lastChargePrice, lastErrorNotify>>

\* the state of the select loop of Start and of the tasks other than tick
loopVars ==
    <<tomorrowPrices, lastMidnightSwap, due, priceNext, running, shutdown,
      errorSends, swaps, starved>>

\* the trade file being written and the answers of the recorder's queries
ledgerVars == <<tmp, saving, report, trail, query, mu>>

vars ==
    <<clock, series, published, pc, tickDue, telegramEnabled, restarts, faults, state, currentPlan, todayPrices,
      lastPassiveRefresh, currentTradeStart, currentTradePrice, currentTradeSOC,
      lastChargePrice, lastErrorNotify, trades, disk, deviceMode, cmds, lastTick,
      crashCost, chargeSeen, cfg, io, loopVars, ledgerVars>>

\* --------------------------------------------------------------- recorder
HasCharge(ts) == \E i \in 1..Len(ts) : ts[i].Action = ActionCharge

\* variant: scans the list from its start
GetLastChargeTrade_First(ts) ==
    ts[CHOOSE i \in 1..Len(ts) :
          /\ ts[i].Action = ActionCharge
          /\ \A j \in 1..(i - 1) : ts[j].Action # ActionCharge]

\* the most recent charge trade (callers test HasCharge first: nil otherwise)
GetLastChargeTrade(ts) ==
    ts[CHOOSE i \in 1..Len(ts) :
          /\ ts[i].Action = ActionCharge
          /\ \A j \in (i + 1)..Len(ts) : ts[j].Action # ActionCharge]

\* RecordTrade: append, then saveTrades rewrites the file unless the write fails
RecordTrade(trade, saveOk) ==
    /\ trades' = Append(trades, trade)
    /\ disk' = IF saveOk THEN MarshalTrades(Append(trades, trade)) ELSE disk

\* r.trades = append(r.trades, trade)
\* variant: the new trade put in front of the list
appendTrade_Front(ts, trade) == <<trade>> \o ts

appendTrade(ts, trade) == Append(ts, trade)

\* the content saveTrades writes: the whole list in memory
\* variant: only the trade being recorded
saveData_LastOnly(ts) ==
    IF ts = <<>> THEN <<>> ELSE MarshalTrades(<<ts[Len(ts)]>>)

saveData(ts) == MarshalTrades(ts)

\* a write of data that stopped after n trades: not a JSON document
Truncated(data, n) == SubSeq(data, 1, n) \o <<<<"cut">>>>

\* json.Unmarshal accepts the content
ValidJSON(data) == \A i \in 1..Len(data) : Len(data[i]) = 8

\* trades.json while os.WriteFile is writing: the data goes to trades.json.tmp
\* variant: the data is written over trades.json itself
durableWhileWriting_InPlace(old, partial) == partial

durableWhileWriting(old, partial) == old

\* t.Timestamp.Format("2006-01-02")
dayKey(trade) == localMidnight(trade.Timestamp)

\* the trades of one day, in ledger order
dayTrades(ts, key) == SelectSeq(ts, LAMBDA t : dayKey(t) = key)

\* sum of EnergyKWh over the trades of an action
RECURSIVE sumEnergy(_, _)
sumEnergy(ts, action) ==
    IF ts = <<>> THEN 0
    ELSE (IF Head(ts).Action = action THEN Head(ts).EnergyKWh ELSE 0)
         + sumEnergy(Tail(ts), action)

\* sum of PriceEUR.Mul(EnergyKWh) over the trades of an action
RECURSIVE sumValue(_, _)
sumValue(ts, action) ==
    IF ts = <<>> THEN 0
    ELSE (IF Head(ts).Action = action THEN Head(ts).PriceEUR * Head(ts).EnergyKWh ELSE 0)
         + sumValue(Tail(ts), action)

\* sum of PriceEUR over the trades of an action
RECURSIVE sumPrice(_, _)
sumPrice(ts, action) ==
    IF ts = <<>> THEN 0
    ELSE (IF Head(ts).Action = action THEN Head(ts).PriceEUR ELSE 0)
         + sumPrice(Tail(ts), action)

\* number of trades of an action
countOf(ts, action) == Len(SelectSeq(ts, LAMBDA t : t.Action = action))

\* minChargePrice: replaced while it is zero or when a lower price comes
RECURSIVE minChargePrice(_, _)
minChargePrice(ts, m) ==
    IF ts = <<>> THEN m
    ELSE IF Head(ts).Action = ActionCharge /\ (m = 0 \/ Head(ts).PriceEUR < m)
         THEN minChargePrice(Tail(ts), Head(ts).PriceEUR)
         ELSE minChargePrice(Tail(ts), m)

RECURSIVE maxDischargePrice(_, _)
maxDischargePrice(ts, m) ==
    IF ts = <<>> THEN m
    ELSE IF Head(ts).Action = ActionDischarge /\ Head(ts).PriceEUR > m
         THEN maxDischargePrice(Tail(ts), Head(ts).PriceEUR)
         ELSE maxDischargePrice(Tail(ts), m)

\* chargeCost.Div(chargedKWh) unless chargedKWh is zero
\* variant: the mean of the trade prices
weightedAverage_Arithmetic(ts, action) ==
    IF countOf(ts, action) = 0 THEN 0
    ELSE RoundDiv(sumPrice(ts, action), countOf(ts, action))

weightedAverage(ts, action) ==
    IF sumEnergy(ts, action) = 0 THEN 0
    ELSE RoundDiv(sumValue(ts, action), sumEnergy(ts, action))

\* pnl := dischargeRevenue.Sub(chargeCost)
\* variant: the difference rounded to a whole cent (6000000 units)
dayPnL_Rounded(revenue, cost) == RoundDiv(revenue - cost, 6000000) * 6000000

dayPnL(revenue, cost) == revenue - cost

\* the DailySummary of the trades of one day
DailySummary(key, ts) ==
    [Date |-> key,
     ChargedKWh |-> sumEnergy(ts, ActionCharge),
     DischargedKWh |-> sumEnergy(ts, ActionDischarge),
     ChargeCycles |-> countOf(ts, ActionCharge),
     DischargeCycles |-> countOf(ts, ActionDischarge),
     PnLEUR |-> dayPnL(sumValue(ts, ActionDischarge), sumValue(ts, ActionCharge)),
     AvgChargePrice |-> weightedAverage(ts, ActionCharge),
     MinChargePrice |-> minChargePrice(ts, 0),
     AvgDischargePrice |-> weightedAverage(ts, ActionDischarge),
     MaxDischargePrice |-> maxDischargePrice(ts, 0),
     Trades |-> ts]

\* the day keys in descending order
RECURSIVE sortDesc(_)
sortDesc(keys) ==
    IF keys = {} THEN <<>>
    ELSE LET top == CHOOSE k \in keys : \A j \in keys : j <= k
         IN  <<top>> \o sortDesc(keys \ {top})

\* totalPnL = totalPnL.Add(pnl) over the days
RECURSIVE sumPnL(_)
sumPnL(days) ==
    IF days = <<>> THEN 0 ELSE Head(days).PnLEUR + sumPnL(Tail(days))

GetHistory(ts) ==
    IF Len(ts) = 0 THEN [Days |-> <<>>, TotalPnL |-> 0, TotalDays |-> 0]
    ELSE LET keys == sortDesc({dayKey(ts[i]) : i \in 1..Len(ts)})
             days == [k \in 1..Len(keys) |-> DailySummary(keys[k], dayTrades(ts, keys[k]))]
         IN  [Days |-> days, TotalPnL |-> sumPnL(days), TotalDays |-> Len(days)]

GetTotalPnL(ts) == sumValue(ts, ActionDischarge) - sumValue(ts, ActionCharge)

\* ----------------------------------------------------------------- engine
\* overlap in minutes of the slot starting at t with [start, end]
Overlap(t, start, end) ==
    LET os == IF start > t THEN start ELSE t
        oe == IF end < t + SlotMinutes THEN end ELSE t + SlotMinutes
    IN  IF t < end /\ t + SlotMinutes > start /\ oe - os > 0 THEN oe - os ELSE 0

RECURSIVE weightedSum(_, _, _)
weightedSum(prices, start, end) ==
    IF prices = <<>> THEN 0
    ELSE Head(prices).Value * Overlap(Head(prices).Time, start, end)
         + weightedSum(Tail(prices), start, end)

RECURSIVE totalDuration(_, _, _)
totalDuration(prices, start, end) ==
    IF prices = <<>> THEN 0
    ELSE Overlap(Head(prices).Time, start, end) + totalDuration(Tail(prices), start, end)

\* time-weighted average price over [start, end], as a decimal
calculateAveragePrice(prices, start, end) ==
    IF Len(prices) = 0 THEN 0
    ELSE IF totalDuration(prices, start, end) = 0 THEN 0
    ELSE RoundDiv(weightedSum(prices, start, end) * DecScale,
                  totalDuration(prices, start, end))

\* lastChargePrice.Div(efficiency)
breakEvenPrice(cost) == RoundDiv(cost * 100, BatteryEfficiencyPct)

\* variant: no test for a missing last charge price
isDischargeProfitiable_NoGate(cost, dischargePrice) ==
    dischargePrice > breakEvenPrice(cost)

\* variant: GreaterThanOrEqual in place of GreaterThan
isDischargeProfitiable_AtBreakEven(cost, dischargePrice) ==
    IF cost = 0 THEN FALSE
    ELSE dischargePrice >= breakEvenPrice(cost)

isDischargeProfitiable(cost, dischargePrice) ==
    IF cost = 0 THEN FALSE
    ELSE dischargePrice > breakEvenPrice(cost)

\* int(cfg.BatteryMinSOC * 100)
minSOC == BatteryMinSOCPct

\* variant: SOC >= 50
batteryFull_Half(soc) == soc >= 50

\* variant: SOC > 100
batteryFull_Above(soc) == soc > 100

\* batStatus.SOC >= 100
batteryFull(soc) == soc >= 100

\* variant: SOC < minSOC
atMinSOC_Below(soc) == soc < minSOC

\* batStatus.SOC <= minSOC
atMinSOC(soc) == soc <= minSOC

\* time.Duration(float64(PassiveModeTimeoutS) * 0.8) * time.Second, in seconds
refreshThresholdS == (PassiveModeTimeoutS * 8) \div 10

Cmd(op, power, ok) == [op |-> op, power |-> power, ok |-> ok]

\* a network call, made with s.mu held by the caller or not
Call(name, locked) == [call |-> name, locked |-> locked]

\* the loop is not inside any handler
NoCall == [task |-> "none", since |-> 0, waited |-> FALSE]

\* s.mu.Unlock(), an external call, s.mu.Lock()
unlockedIO == <<"Unlock", "Lock">>

\* variant: the error return of the start helpers leaves the lock released
startLocks_ErrorUnlocked(devOk) ==
    IF devOk THEN unlockedIO \o unlockedIO ELSE <<"Unlock">>

\* startChargingLocked and startDischargingLocked: the device command, and
\* after it either the error return or the trade notification
startLocks(devOk) == unlockedIO \o (IF devOk THEN unlockedIO ELSE <<>>)

\* transitionToIdleLocked: the idle command
transitionLocks == unlockedIO

\* stopChargingLocked and stopDischargingLocked: RecordTrade, the transition
\* to idle, the trade notification
stopLocks == unlockedIO \o transitionLocks \o unlockedIO

\* refreshPassiveModeLocked: nothing before the threshold, else the command
refreshLocks(sent) == IF sent THEN unlockedIO ELSE <<>>

\* a tick that returns before it takes the lock
tickUnlocked == IF ~mu.on THEN mu ELSE [mu EXCEPT !.ops = <<>>, !.helper = <<>>]

\* tick from s.mu.Lock() on: the helper it calls, then the deferred Unlock
tickLocks(helper) ==
    IF ~mu.on THEN mu
    ELSE [mu EXCEPT !.ops = <<"Lock">> \o helper \o <<"Unlock">>, !.helper = helper]

\* tick queries the battery before it takes the lock
StatusQuery == <<Call("GetBatteryStatus", FALSE)>>

\* a trade notification, sent between Unlock and Lock when a notifier is configured
tradeSends(name) == IF telegramEnabled THEN <<Call(name, FALSE)>> ELSE <<>>

\* variant: every error is sent
rateLimited_Never(since) == FALSE

\* time.Since(lastErrorNotify) < 15 minutes
rateLimited(since) == clock - since < ErrorCooldownMinutes

\* the SendError call of notifyError, if it makes one; locked tells whether
\* the caller holds s.mu
notifySends(locked) ==
    IF ~telegramEnabled THEN <<>>
    ELSE IF rateLimited(lastErrorNotify) THEN <<>>
    ELSE <<Call("SendError", locked)>>

\* notifyError: nothing without a notifier, else at most one send per cooldown
notifyError ==
    /\ lastErrorNotify' =
          IF ~telegramEnabled THEN lastErrorNotify
          ELSE IF rateLimited(lastErrorNotify) THEN lastErrorNotify
          ELSE clock
    /\ errorSends' =
          IF ~telegramEnabled THEN errorSends
          ELSE IF rateLimited(lastErrorNotify) THEN errorSends
          ELSE Append(errorSends, clock)

\* variant: the session start leaves lastChargePrice alone
startChargingLocked_KeepsCost(price, soc, devOk) ==
    /\ cmds' = <<Cmd("Charge", ChargePowerW, devOk)>>
    /\ io' = StatusQuery \o <<Call("Charge", FALSE)>>
                \o (IF devOk THEN tradeSends("SendTradeStart") ELSE notifySends(TRUE))
    /\ mu' = tickLocks(startLocks(devOk))
    /\ UNCHANGED <<trades, disk, currentPlan, todayPrices, lastChargePrice>>
    /\ IF ~devOk
       THEN /\ notifyError
            /\ UNCHANGED <<state, currentTradeStart, currentTradePrice,
                           currentTradeSOC, lastPassiveRefresh, deviceMode, chargeSeen>>
       ELSE /\ state' = StateCharging
            /\ currentTradeStart' = clock
            /\ currentTradePrice' = price
            /\ currentTradeSOC' = soc
            /\ lastPassiveRefresh' = clock
            /\ deviceMode' = "charge"
            /\ chargeSeen' = TRUE
            /\ UNCHANGED <<lastErrorNotify, errorSends>>

startChargingLocked(price, soc, devOk) ==
    /\ cmds' = <<Cmd("Charge", ChargePowerW, devOk)>>
    /\ io' = StatusQuery \o <<Call("Charge", FALSE)>>
                \o (IF devOk THEN tradeSends("SendTradeStart") ELSE notifySends(TRUE))
    /\ mu' = tickLocks(startLocks(devOk))
    /\ UNCHANGED <<trades, disk, currentPlan, todayPrices>>
    /\ IF ~devOk
       THEN /\ notifyError
            /\ UNCHANGED <<state, currentTradeStart, currentTradePrice,
                           currentTradeSOC, lastPassiveRefresh, lastChargePrice,
                           deviceMode, chargeSeen>>
       ELSE /\ state' = StateCharging
            /\ currentTradeStart' = clock
            /\ currentTradePrice' = price
            /\ currentTradeSOC' = soc
            /\ lastPassiveRefresh' = clock
            /\ lastChargePrice' = price
            /\ deviceMode' = "charge"
            /\ chargeSeen' = TRUE
            /\ UNCHANGED <<lastErrorNotify, errorSends>>

startDischargingLocked(price, soc, devOk) ==
    /\ cmds' = <<Cmd("Discharge", DischargePowerW, devOk)>>
    /\ io' = StatusQuery \o <<Call("Discharge", FALSE)>>
                \o (IF devOk THEN tradeSends("SendTradeStart") ELSE notifySends(TRUE))
    /\ mu' = tickLocks(startLocks(devOk))
    /\ UNCHANGED <<trades, disk, currentPlan, todayPrices, lastChargePrice, chargeSeen>>
    /\ IF ~devOk
       THEN /\ notifyError
            /\ UNCHANGED <<state, currentTradeStart, currentTradePrice,
                           currentTradeSOC, lastPassiveRefresh, deviceMode>>
       ELSE /\ state' = StateDischarging
            /\ currentTradeStart' = clock
            /\ currentTradePrice' = price
            /\ currentTradeSOC' = soc
            /\ lastPassiveRefresh' = clock
            /\ deviceMode' = "discharge"
            /\ UNCHANGED <<lastErrorNotify, errorSends>>

\* battery.Idle() with its error only logged, then state = idle
transitionToIdleLocked(devOk) ==
    /\ cmds' = <<Cmd("Idle", 0, devOk)>>
    /\ deviceMode' = IF devOk THEN "idle" ELSE deviceMode
    /\ state' = StateIdle

stopChargingLocked(endSOC, saveOk, devOk) ==
    LET now == clock
        duration == now - currentTradeStart
        avg == calculateAveragePrice(todayPrices, currentTradeStart, now)
        avgPrice == IF avg = 0 THEN currentTradePrice ELSE avg
        trade == [Timestamp |-> currentTradeStart, Action |-> ActionCharge,
                  PriceEUR |-> avgPrice, PowerW |-> ChargePowerW,
                  DurationS |-> duration * 60,
                  EnergyKWh |-> ChargePowerW * duration,
                  StartSOC |-> currentTradeSOC, EndSOC |-> endSOC]
    IN  /\ lastChargePrice' = avgPrice
        /\ RecordTrade(trade, saveOk)
        /\ transitionToIdleLocked(devOk)
        /\ io' = StatusQuery \o <<Call("Idle", FALSE)>> \o tradeSends("SendTradeEnd")
        /\ mu' = tickLocks(stopLocks)
        /\ UNCHANGED <<currentPlan, todayPrices, currentTradeStart, currentTradePrice,
                       currentTradeSOC, lastPassiveRefresh, lastErrorNotify, errorSends,
                       chargeSeen>>

stopDischargingLocked(endSOC, saveOk, devOk) ==
    LET duration == clock - currentTradeStart
        trade == [Timestamp |-> currentTradeStart, Action |-> ActionDischarge,
                  PriceEUR |-> currentTradePrice, PowerW |-> DischargePowerW,
                  DurationS |-> duration * 60,
                  EnergyKWh |-> DischargePowerW * duration,
                  StartSOC |-> currentTradeSOC, EndSOC |-> endSOC]
    IN  /\ RecordTrade(trade, saveOk)
        /\ transitionToIdleLocked(devOk)
        /\ io' = StatusQuery \o <<Call("Idle", FALSE)>> \o tradeSends("SendTradeEnd")
        /\ mu' = tickLocks(stopLocks)
        /\ UNCHANGED <<currentPlan, todayPrices, currentTradeStart, currentTradePrice,
                       currentTradeSOC, lastPassiveRefresh, lastErrorNotify, errorSends,
                       lastChargePrice, chargeSeen>>

\* re-send the power command once 80% of the countdown has elapsed
refreshPassiveModeLocked(power, devOk) ==
    /\ UNCHANGED <<state, trades, disk, currentPlan, todayPrices, currentTradeStart,
                   currentTradePrice, currentTradeSOC, lastErrorNotify, errorSends,
                   lastChargePrice, chargeSeen>>
    /\ IF (clock - lastPassiveRefresh) * 60 < refreshThresholdS
       THEN /\ cmds' = <<>>
            /\ io' = StatusQuery
            /\ mu' = tickLocks(refreshLocks(FALSE))
            /\ UNCHANGED <<lastPassiveRefresh, deviceMode>>
       ELSE /\ cmds' = <<Cmd("SetPassiveMode", power, devOk)>>
            /\ io' = StatusQuery \o <<Call("SetPassiveMode", FALSE)>>
            /\ mu' = tickLocks(refreshLocks(TRUE))
            /\ lastPassiveRefresh' = IF devOk THEN clock ELSE lastPassiveRefresh
            /\ deviceMode' =
                  IF ~devOk THEN deviceMode
                  ELSE IF power < 0 THEN "charge" ELSE "discharge"

\* the tick does nothing to the engine or the device
noAction ==
    /\ cmds' = <<>>
    /\ io' = StatusQuery
    /\ mu' = tickLocks(<<>>)
    /\ UNCHANGED <<engineVars, errorSends, trades, disk, deviceMode, chargeSeen>>

\* the slots of prices that have not ended before now
RECURSIVE futurePrices(_, _)
futurePrices(prices, now) ==
    IF prices = <<>> THEN <<>>
    ELSE IF Head(prices).Time + SlotMinutes < now THEN futurePrices(Tail(prices), now)
    ELSE <<Head(prices)>> \o futurePrices(Tail(prices), now)

\* what the provider answers to FetchTodayPrices at time now
FetchTodayPrices(now) == makePrices(localMidnight(now), series)

\* what the provider answers to FetchTomorrowPrices at time now
FetchTomorrowPrices(now) == makePrices(localMidnight(now) + DayMinutes, series)

\* a plan notification, sent without the lock when a notifier is configured
planSends == IF telegramEnabled THEN <<Call("SendTradingPlan", FALSE)>> ELSE <<>>

\* ----------------------------------------------------------------- actions
\* the loop of Start has not begun: no ticker, no handler, nothing sent
LoopInit ==
    /\ tomorrowPrices = <<>>
    /\ lastMidnightSwap = ZeroTime
    /\ due = {}
    /\ priceNext = 0
    /\ running = NoCall
    /\ shutdown = FALSE
    /\ io = <<>>
    /\ errorSends = <<>>
    /\ swaps = <<>>
    /\ starved = {}

\* no save of the trade file has been begun, no query answered
LedgerIdle ==
    /\ tmp = NoFile
    /\ saving = NoSave
    /\ report = NoReport
    /\ trail = NoTrail
    /\ query = NoQuery
    /\ mu = NoLocks

Init ==
    /\ clock = 0
    /\ series \in PriceSeries
    /\ published = FALSE
    /\ disk \in InitialLedgers
    /\ pc = "new"
    /\ tickDue = FALSE
    /\ state = StateIdle
    /\ currentPlan = NilPlan
    /\ todayPrices = <<>>
    /\ lastPassiveRefresh = ZeroTime
    /\ currentTradeStart = ZeroTime
    /\ currentTradePrice = 0
    /\ currentTradeSOC = 0
    /\ lastChargePrice = 0
    /\ lastErrorNotify = ZeroTime
    /\ telegramEnabled = FALSE
    /\ restarts = 0
    /\ faults = 0
    /\ trades = <<>>
    /\ deviceMode = "auto"
    /\ cmds = <<>>
    /\ lastTick = NoTick
    /\ crashCost = [known |-> FALSE, cost |-> 0]
    /\ chargeSeen = FALSE
    /\ cfg = analyzerConfig
    /\ LoopInit
    /\ LedgerIdle

\* Start up to the entry of its loop: load the ledger, restore the last
\* charge price, connect, fetch today's prices and analyze the future slots,
\* try tomorrow's prices, announce the startup, create the tickers
Start ==
    /\ pc = "new"
    /\ \E loadOk \in BOOLEAN, connectOk \in BOOLEAN, fetchOk \in BOOLEAN :
        LET loaded == IF loadOk THEN UnmarshalTrades(disk) ELSE trades
            prices == FetchTodayPrices(clock)
            tomorrowOk == published
        IN  /\ trades' = loaded
            /\ tomorrowPrices' =
                  IF connectOk /\ tomorrowOk THEN FetchTomorrowPrices(clock)
                  ELSE tomorrowPrices
            /\ priceNext' = IF connectOk THEN clock + PriceCheckMinutes ELSE priceNext
            /\ io' = IF ~connectOk THEN <<Call("Connect", FALSE)>>
                     ELSE <<Call("Connect", FALSE), Call("Discover", FALSE),
                            Call("FetchTodayPrices", FALSE)>>
                          \o (IF fetchOk THEN planSends ELSE <<>>)
                          \o <<Call("FetchTomorrowPrices", FALSE)>>
                          \o (IF tomorrowOk THEN planSends ELSE <<>>)
                          \o (IF telegramEnabled THEN <<Call("SendStartup", FALSE)>>
                              ELSE <<>>)
            /\ chargeSeen' = HasCharge(loaded)
            /\ lastChargePrice' =
                  IF HasCharge(loaded) THEN GetLastChargeTrade(loaded).PriceEUR
                  ELSE lastChargePrice
            /\ IF ~connectOk
               THEN /\ pc' = "failed"
                    /\ UNCHANGED <<todayPrices, currentPlan>>
               ELSE /\ pc' = "running"
                    /\ IF fetchOk
                       THEN /\ todayPrices' = prices
                            /\ currentPlan' = AnalyzePrices(futurePrices(prices, clock), cfg)
                       ELSE UNCHANGED <<todayPrices, currentPlan>>
            /\ faults' = faults + (IF loadOk THEN 0 ELSE 1)
                               + (IF connectOk THEN 0 ELSE 1)
                               + (IF connectOk /\ ~fetchOk THEN 1 ELSE 0)
            /\ faults' <= MaxFaults
            /\ connectOk \/ fetchOk
    /\ tickDue' = FALSE
    /\ cmds' = <<>>
    /\ lastTick' = NoTick
    /\ UNCHANGED <<clock, series, published, telegramEnabled, restarts, state,
                   lastPassiveRefresh, currentTradeStart, currentTradePrice,
                   currentTradeSOC, lastErrorNotify, disk, deviceMode, crashCost, cfg, ledgerVars,
                   lastMidnightSwap, due, running, shutdown, errorSends, swaps,
                   starved>>

\* the process exits (crash or kill) and is created again by New and
\* NewRecorder; the trade file and the battery keep their state
Crash ==
    /\ pc \in {"running", "failed"}
    /\ restarts < MaxRestarts
    /\ restarts' = restarts + 1
    /\ pc' = "new"
    /\ crashCost' = [known |-> TRUE, cost |-> lastChargePrice]
    /\ state' = StateIdle
    /\ currentPlan' = NilPlan
    /\ todayPrices' = <<>>
    /\ lastPassiveRefresh' = ZeroTime
    /\ currentTradeStart' = ZeroTime
    /\ currentTradePrice' = 0
    /\ currentTradeSOC' = 0
    /\ lastChargePrice' = 0
    /\ lastErrorNotify' = ZeroTime
    /\ trades' = <<>>
    /\ tickDue' = FALSE
    /\ cmds' = <<>>
    /\ lastTick' = NoTick
    /\ chargeSeen' = FALSE
    /\ tomorrowPrices' = <<>>
    /\ lastMidnightSwap' = ZeroTime
    /\ due' = {}
    /\ priceNext' = 0
    /\ running' = NoCall
    /\ shutdown' = FALSE
    /\ io' = <<>>
    /\ errorSends' = <<>>
    /\ swaps' = <<>>
    /\ starved' = {}
    /\ UNCHANGED <<clock, series, published, telegramEnabled, faults, disk, deviceMode, cfg, ledgerVars>>

\* time passes and the ticker fires
Advance ==
    /\ clock < MaxClock
    /\ pc = "running" => ~tickDue
    /\ clock' = clock + StepMinutes
    /\ tickDue' = TRUE
    /\ cmds' = <<>>
    /\ lastTick' = NoTick
    /\ crashCost' = [known |-> FALSE, cost |-> 0]
    /\ io' = <<>>
    /\ UNCHANGED <<series, published, pc, telegramEnabled, restarts, faults, engineVars,
                   trades, disk, deviceMode, chargeSeen, cfg, ledgerVars, loopVars>>

\* one run of tick, the battery reporting one of the given states of charge
TickOf(socs) ==
    /\ pc = "running"
    /\ (running.task = "none" /\ tickDue) \/ running.task = "tick"
    /\ Len(trades) < MaxTrades \/ state # StateIdle
    /\ tickDue' = FALSE
    /\ running' = NoCall
    /\ UNCHANGED <<clock, series, published, pc, telegramEnabled, restarts, crashCost, cfg,
                   tmp, saving, report, query,
                   tomorrowPrices, lastMidnightSwap, due, priceNext, shutdown,
                   swaps, starved>>
    /\ \E statusOk \in BOOLEAN, soc \in socs, chargingFlag \in BOOLEAN,
          dischargFlag \in BOOLEAN, devOk \in BOOLEAN, saveOk \in BOOLEAN :
        LET now == IF running.task = "tick" THEN running.since ELSE clock
            planOk == IF currentPlan.IsNil THEN FALSE ELSE ShouldTrade(currentPlan)
            cp == GetCurrentPrice(todayPrices, now)
            currentPrice == NewFromFloat(cp.value)
            inChargeWindow == planOk /\ IsInChargeWindow(currentPlan, now)
            inDischargeWindow == planOk /\ IsInDischargeWindow(currentPlan, now)
        IN  /\ lastTick' =
                  [ran |-> TRUE, statusOk |-> statusOk, soc |-> soc,
                   chargingFlag |-> chargingFlag, dischargFlag |-> dischargFlag,
                   now |-> now, state |-> state, planOk |-> planOk,
                   priceOk |-> cp.ok, price |-> currentPrice,
                   inChargeWindow |-> inChargeWindow,
                   inDischargeWindow |-> inDischargeWindow,
                   cost |-> lastChargePrice, nTrades |-> Len(trades),
                   tradeStart |-> currentTradeStart,
                   tradePrice |-> currentTradePrice,
                   refreshed |-> lastPassiveRefresh, end |-> clock]
            /\ IF ~statusOk
               THEN /\ notifyError
                    /\ cmds' = <<>>
                    /\ io' = StatusQuery \o notifySends(FALSE)
                    /\ mu' = tickUnlocked
                    /\ UNCHANGED <<state, currentPlan, todayPrices, lastPassiveRefresh,
                                   currentTradeStart, currentTradePrice, currentTradeSOC,
                                   lastChargePrice, trades, disk, deviceMode, chargeSeen>>
               ELSE IF ~planOk
               THEN IF state # StateIdle
                    THEN /\ transitionToIdleLocked(devOk)
                         /\ io' = StatusQuery \o <<Call("Idle", FALSE)>>
                         /\ mu' = tickLocks(transitionLocks)
                         /\ UNCHANGED <<currentPlan, todayPrices, lastPassiveRefresh,
                                        currentTradeStart, currentTradePrice,
                                        currentTradeSOC, lastChargePrice,
                                        lastErrorNotify, errorSends, trades, disk,
                                        chargeSeen>>
                    ELSE noAction
               ELSE IF ~cp.ok
               THEN noAction
               ELSE IF state = StateIdle
               THEN IF inChargeWindow
                    THEN IF batteryFull(soc) THEN noAction
                         ELSE IF ~chargingFlag THEN noAction
                         ELSE startChargingLocked(currentPrice, soc, devOk)
                    ELSE IF inDischargeWindow
                    THEN IF atMinSOC(soc) THEN noAction
                         ELSE IF ~dischargFlag THEN noAction
                         ELSE IF ~isDischargeProfitiable(lastChargePrice, currentPrice)
                         THEN noAction
                         ELSE startDischargingLocked(currentPrice, soc, devOk)
                    ELSE noAction
               ELSE IF state = StateCharging
               THEN IF ~inChargeWindow THEN stopChargingLocked(soc, saveOk, devOk)
                    ELSE IF batteryFull(soc) THEN stopChargingLocked(soc, saveOk, devOk)
                    ELSE refreshPassiveModeLocked(0 - ChargePowerW, devOk)
               ELSE IF ~inDischargeWindow THEN stopDischargingLocked(soc, saveOk, devOk)
                    ELSE IF atMinSOC(soc) THEN stopDischargingLocked(soc, saveOk, devOk)
                    ELSE refreshPassiveModeLocked(DischargePowerW, devOk)
            /\ devOk \/ cmds' # <<>>
            /\ saveOk \/ trades' # trades
            /\ statusOk \/ (soc = minSOC /\ chargingFlag /\ dischargFlag)
            /\ faults' = faults + (IF statusOk THEN 0 ELSE 1)
                               + (IF devOk THEN 0 ELSE 1)
                               + (IF saveOk THEN 0 ELSE 1)
            /\ faults' <= MaxFaults
            /\ trail' =
                  IF ~trail.on THEN trail
                  ELSE [trail EXCEPT !.ticks =
                           Append(@, [now |-> now, statusOk |-> statusOk, soc |-> soc,
                                      chargingFlag |-> chargingFlag,
                                      dischargFlag |-> dischargFlag,
                                      state |-> state', cmds |-> cmds',
                                      cost |-> lastChargePrice',
                                      tradePrice |-> currentTradePrice',
                                      trades |-> trades'])]

Tick == TickOf(SOCValues)

Next == Start \/ Crash \/ Advance \/ Tick

Spec == Init /\ [][Next]_vars

\* ------------------------------------------- the lock of the engine
\* the engine with the operations of each tick on s.mu recorded
InitLock ==
    /\ clock = 0
    /\ series \in PriceSeries
    /\ published = FALSE
    /\ disk = <<>>
    /\ pc = "new"
    /\ tickDue = FALSE
    /\ state = StateIdle
    /\ currentPlan = NilPlan
    /\ todayPrices = <<>>
    /\ lastPassiveRefresh = ZeroTime
    /\ currentTradeStart = ZeroTime
    /\ currentTradePrice = 0
    /\ currentTradeSOC = 0
    /\ lastChargePrice = 0
    /\ lastErrorNotify = ZeroTime
    /\ telegramEnabled \in BOOLEAN
    /\ restarts = 0
    /\ faults = 0
    /\ trades = <<>>
    /\ deviceMode = "auto"
    /\ cmds = <<>>
    /\ lastTick = NoTick
    /\ crashCost = [known |-> FALSE, cost |-> 0]
    /\ chargeSeen = FALSE
    /\ cfg = analyzerConfig
    /\ LoopInit
    /\ tmp = NoFile
    /\ saving = NoSave
    /\ report = NoReport
    /\ trail = NoTrail
    /\ query = NoQuery
    /\ mu = [on |-> TRUE, ops |-> <<>>, helper |-> <<>>]

SpecLock == InitLock /\ [][Next]_vars

\* ------------------------------------------- sessions over two slots
\* price lists with zero and negative prices; in the first the seven minutes
\* of slot 0 and the one minute of slot 1 that a session from 00:08 to 00:16
\* covers weigh -0.25 * 7 + 1.75 * 1 = 0
AverageSeries ==
    { <<0 - 25, 175, 25, 10>>,
      <<0 - 5, 15, 25, 10>>,
      <<0, 10, 25, 10>>,
      <<5, 15, 25, 10>> }

InitAverage ==
    /\ clock = 0
    /\ series \in AverageSeries
    /\ published = FALSE
    /\ disk = <<>>
    /\ pc = "new"
    /\ tickDue = FALSE
    /\ state = StateIdle
    /\ currentPlan = NilPlan
    /\ todayPrices = <<>>
    /\ lastPassiveRefresh = ZeroTime
    /\ currentTradeStart = ZeroTime
    /\ currentTradePrice = 0
    /\ currentTradeSOC = 0
    /\ lastChargePrice = 0
    /\ lastErrorNotify = ZeroTime
    /\ telegramEnabled = FALSE
    /\ restarts = 0
    /\ faults = 0
    /\ trades = <<>>
    /\ deviceMode = "auto"
    /\ cmds = <<>>
    /\ lastTick = NoTick
    /\ crashCost = [known |-> FALSE, cost |-> 0]
    /\ chargeSeen = FALSE
    /\ cfg = analyzerConfig
    /\ LoopInit
    /\ LedgerIdle

SpecAverage == InitAverage /\ [][Next]_vars

\* ------------------------------------------- one tick at each slot start
\* the price list of the full charge and discharge sequence
SequenceSeries == <<5, 15, 25, 10>>


\* the service as built for the sequence: prices and plan in place, Idle, an
\* empty ledger, the first tick due at the start of slot 0
InitSequence ==
    /\ clock = 0
    /\ series = SequenceSeries
    /\ published = FALSE
    /\ disk = <<>>
    /\ pc = "running"
    /\ tickDue = TRUE
    /\ state = StateIdle
    /\ todayPrices = makePrices(0, SequenceSeries)
    /\ currentPlan = AnalyzePrices(makePrices(0, SequenceSeries), analyzerConfig)
    /\ lastPassiveRefresh = ZeroTime
    /\ currentTradeStart = ZeroTime
    /\ currentTradePrice = 0
    /\ currentTradeSOC = 0
    /\ lastChargePrice = 0
    /\ lastErrorNotify = ZeroTime
    /\ telegramEnabled = FALSE
    /\ restarts = 0
    /\ faults = 0
    /\ trades = <<>>
    /\ deviceMode = "auto"
    /\ cmds = <<>>
    /\ lastTick = NoTick
    /\ crashCost = [known |-> FALSE, cost |-> 0]
    /\ chargeSeen = FALSE
    /\ cfg = analyzerConfig
    /\ LoopInit
    /\ tmp = NoFile
    /\ saving = NoSave
    /\ report = NoReport
    /\ trail = [on |-> TRUE, ticks |-> <<>>]
    /\ query = NoQuery
    /\ mu = NoLocks

\* the clock is set to the start of the next slot and tick is called again
AdvanceSlot ==
    /\ clock + SlotMinutes < Len(SequenceSeries) * SlotMinutes
    /\ ~tickDue
    /\ clock' = clock + SlotMinutes
    /\ tickDue' = TRUE
    /\ cmds' = <<>>
    /\ lastTick' = NoTick
    /\ crashCost' = [known |-> FALSE, cost |-> 0]
    /\ io' = <<>>
    /\ UNCHANGED <<series, published, pc, telegramEnabled, restarts, faults, engineVars,
                   trades, disk, deviceMode, chargeSeen, cfg, ledgerVars, loopVars>>

NextSequence == AdvanceSlot \/ TickOf(ReportedSOCs)

SpecSequence == InitSequence /\ [][NextSequence]_vars

\* ------------------------------------------- the UDP client's status query
MethodBatStatus == "Bat.GetStatus"
MethodESStatus == "ES.GetStatus"

\* what send returns when it fails: no connection, the read deadline passed,
\* the device answered with an rpc error
SendErrors == {"not connected", "read response", "rpc error"}

\* what one Bat.GetStatus request can meet: an error of send, a result that
\* is not a battery status, or a battery status
BatReplies ==
    [err : SendErrors, valid : {FALSE}, SOC : {0}, ChargingFlag : {FALSE}, DischargFlag : {FALSE}]
    \cup [err : {"nil"}, valid : {FALSE}, SOC : {0}, ChargingFlag : {FALSE}, DischargFlag : {FALSE}]
    \cup [err : {"nil"}, valid : {TRUE}, SOC : ReportedSOCs, ChargingFlag : BOOLEAN, DischargFlag : BOOLEAN]

\* what the ES.GetStatus request can meet
ESReplies ==
    [err : SendErrors, valid : {FALSE}, BatterySOC : {0}]
    \cup [err : {"nil"}, valid : {FALSE}, BatterySOC : {0}]
    \cup [err : {"nil"}, valid : {TRUE}, BatterySOC : ReportedSOCs]

\* one pass of the retry loop: the error it leaves in lastErr, or the status
batAttempt(reply) ==
    IF reply.err # "nil" THEN [err |-> reply.err, status |-> <<>>]
    ELSE IF ~reply.valid THEN [err |-> "unmarshal battery status", status |-> <<>>]
    ELSE [err |-> "nil",
          status |-> [SOC |-> reply.SOC,
                      ChargingFlag |-> IF reply.SOC < 100 THEN TRUE ELSE reply.ChargingFlag,
                      DischargFlag |-> reply.DischargFlag]]

GetESStatus(reply) ==
    IF reply.err # "nil" THEN [err |-> reply.err, status |-> <<>>]
    ELSE IF ~reply.valid THEN [err |-> "unmarshal ES status", status |-> <<>>]
    ELSE [err |-> "nil", status |-> [BatterySOC |-> reply.BatterySOC]]

\* the fallback returns its own error
fallback_OwnError(lastErr, es, replies, sent) ==
    IF es.err # "nil"
    THEN [replies |-> replies, sent |-> sent, status |-> <<>>, err |-> es.err]
    ELSE [replies |-> replies, sent |-> sent, err |-> "nil",
          status |-> [SOC |-> es.status.BatterySOC, ChargingFlag |-> TRUE,
                      DischargFlag |-> TRUE]]

\* the end of GetBatteryStatus: the fallback's status, or the error the
\* retry loop left
fallback(lastErr, es, replies, sent) ==
    IF es.err # "nil"
    THEN [replies |-> replies, sent |-> sent, status |-> <<>>, err |-> lastErr]
    ELSE [replies |-> replies, sent |-> sent, err |-> "nil",
          status |-> [SOC |-> es.status.BatterySOC, ChargingFlag |-> TRUE,
                      DischargFlag |-> TRUE]]

\* GetBatteryStatus with the replies its requests meet: r1 and r2 for the two
\* passes of the retry loop, r3 for the fallback
retryLoop(r1, r2, r3) ==
    LET a1 == batAttempt(r1)
        a2 == batAttempt(r2)
    IN  IF a1.err = "nil"
        THEN [replies |-> <<r1>>, sent |-> <<MethodBatStatus>>,
              status |-> a1.status, err |-> "nil"]
        ELSE IF a2.err = "nil"
        THEN [replies |-> <<r1, r2>>, sent |-> <<MethodBatStatus, MethodBatStatus>>,
              status |-> a2.status, err |-> "nil"]
        ELSE fallback(a2.err, GetESStatus(r3), <<r1, r2, r3>>,
                      <<MethodBatStatus, MethodBatStatus, MethodESStatus>>)

InitQuery ==
    /\ clock = 0
    /\ series = <<>>
    /\ published = FALSE
    /\ disk = <<>>
    /\ pc = "client"
    /\ tickDue = FALSE
    /\ state = StateIdle
    /\ currentPlan = NilPlan
    /\ todayPrices = <<>>
    /\ lastPassiveRefresh = ZeroTime
    /\ currentTradeStart = ZeroTime
    /\ currentTradePrice = 0
    /\ currentTradeSOC = 0
    /\ lastChargePrice = 0
    /\ lastErrorNotify = ZeroTime
    /\ telegramEnabled = FALSE
    /\ restarts = 0
    /\ faults = 0
    /\ trades = <<>>
    /\ deviceMode = "auto"
    /\ cmds = <<>>
    /\ lastTick = NoTick
    /\ crashCost = [known |-> FALSE, cost |-> 0]
    /\ chargeSeen = FALSE
    /\ cfg = analyzerConfig
    /\ LoopInit
    /\ LedgerIdle

GetBatteryStatus ==
    /\ pc = "client"
    /\ \E r1 \in BatReplies, r2 \in BatReplies, r3 \in ESReplies :
           query' = retryLoop(r1, r2, r3)
    /\ UNCHANGED <<clock, series, published, pc, tickDue, telegramEnabled, restarts,
                   faults, engineVars, trades, disk, deviceMode, cmds, lastTick,
                   crashCost, chargeSeen, cfg, io, loopVars, tmp, saving, report, trail, mu>>

NextQuery == GetBatteryStatus

SpecQuery == InitQuery /\ [][NextQuery]_vars

\* ------------------------------------------- ticks closer than the refresh
\* time passes between two ticks that are less than the refresh threshold apart
AdvanceRefresh ==
    /\ clock < MaxClockRefresh
    /\ pc = "running" => ~tickDue
    /\ clock' = clock + RefreshStep
    /\ tickDue' = TRUE
    /\ cmds' = <<>>
    /\ lastTick' = NoTick
    /\ crashCost' = [known |-> FALSE, cost |-> 0]
    /\ io' = <<>>
    /\ UNCHANGED <<series, published, pc, telegramEnabled, restarts, faults, engineVars,
                   trades, disk, deviceMode, chargeSeen, cfg, ledgerVars, loopVars>>

NextRefresh == Start \/ AdvanceRefresh \/ Tick

SpecRefresh == Init /\ [][NextRefresh]_vars

NextResume == Start \/ AdvanceRefresh \/ TickOf(ReportedSOCs)

SpecResume == Init /\ [][NextResume]_vars

\* ------------------------------------------- the select loop of Start
\* price lists served while the loop is followed
LoopSeries == {<<5, 15, 25, 10>>}

\* price list served while the end of the loop is followed: the cheapest slot
\* begins with the first tick after the start, the dearest follows it
ShutdownSeries == {<<20, 15, 5, 25>>}

\* times at which the process is started: the price ticker then fires at the
\* start of each slot, or 10 minutes into each slot
LoopStarts == {5 * LoopStep}

\* the tick is no longer followed once the ledger is full and the engine idle
TickSkipped == Len(trades) >= MaxTrades /\ state = StateIdle

\* the handler of the task would make an external call right away
MakesCall(task) ==
    CASE task = "tick" -> ~TickSkipped
      [] task = "price" ->
            \/ Hour(clock) = FetchHour /\ tomorrowPrices = <<>>
            \/ /\ Hour(clock) = 0 /\ Minute(clock) < MidnightWindowMinutes
               /\ Truncate24h(lastMidnightSwap) # Truncate24h(clock)
               /\ tomorrowPrices = <<>>
      [] task = "daily" ->
            /\ telegramEnabled
            /\ Hour(clock) = SummaryHour /\ Minute(clock) = HourMinutes - LoopStep
      [] task = "cmd" -> telegramEnabled

IsDue(task) == IF task = "tick" THEN tickDue ELSE task \in due

\* the loop may take the task's ticker value, or is already in its handler
Serves(task) ==
    /\ pc = "running"
    /\ (running.task = "none" /\ IsDue(task)) \/ running.task = task

\* the time the handler read with s.now() when it began
HandlerNow == IF running.task = "none" THEN clock ELSE running.since

LoopBase ==
    /\ clock \in LoopStarts
    /\ disk = <<>>
    /\ pc = "new"
    /\ tickDue = FALSE
    /\ state = StateIdle
    /\ currentPlan = NilPlan
    /\ todayPrices = <<>>
    /\ lastPassiveRefresh = ZeroTime
    /\ currentTradeStart = ZeroTime
    /\ currentTradePrice = 0
    /\ currentTradeSOC = 0
    /\ lastChargePrice = 0
    /\ lastErrorNotify = ZeroTime
    /\ telegramEnabled = TRUE
    /\ restarts = 0
    /\ faults = 0
    /\ trades = <<>>
    /\ deviceMode = "auto"
    /\ cmds = <<>>
    /\ lastTick = NoTick
    /\ crashCost = [known |-> FALSE, cost |-> 0]
    /\ chargeSeen = FALSE
    /\ cfg = analyzerConfig
    /\ LoopInit
    /\ LedgerIdle

InitLoop ==
    /\ series \in LoopSeries
    /\ published \in BOOLEAN
    /\ LoopBase

InitShutdown ==
    /\ series \in ShutdownSeries
    /\ published \in BOOLEAN
    /\ LoopBase

\* a handler begins and its first external call does not return at once
Stall ==
    \E task \in {"tick", "price", "daily", "cmd"} :
        /\ pc = "running"
        /\ running.task = "none"
        /\ IsDue(task)
        /\ MakesCall(task)
        /\ faults < MaxFaults
        /\ faults' = faults + 1
        /\ running' = [task |-> task, since |-> clock, waited |-> FALSE]
        /\ tickDue' = IF task = "tick" THEN FALSE ELSE tickDue
        /\ due' = due \ {task}
        /\ cmds' = <<>>
        /\ io' = <<>>
        /\ lastTick' = NoTick
        /\ UNCHANGED <<clock, series, published, pc, telegramEnabled, restarts,
                       engineVars, trades, disk, deviceMode, crashCost, chargeSeen, cfg, ledgerVars,
                       tomorrowPrices, lastMidnightSwap, priceNext, shutdown,
                       errorSends, swaps, starved>>

\* time passes: at the select with nothing ready, or inside a blocked call;
\* every ticker whose time has come puts a value in its channel
AdvanceTo(horizon) ==
    /\ pc = "running"
    /\ clock < horizon
    /\ IF running.task = "none"
       THEN (~tickDue \/ TickSkipped) /\ due = {} /\ ~shutdown
       ELSE ~running.waited
    /\ clock' = clock + LoopStep
    /\ tickDue' = TRUE
    /\ due' = due \cup {"daily", "cmd"}
                  \cup (IF clock + LoopStep >= priceNext THEN {"price"} ELSE {})
    /\ priceNext' =
          IF clock + LoopStep >= priceNext THEN priceNext + PriceCheckMinutes
          ELSE priceNext
    /\ running' = IF running.task = "none" THEN running
                  ELSE [running EXCEPT !.waited = TRUE]
    /\ starved' = IF running.task = "none" THEN {}
                  ELSE due \cup (IF tickDue THEN {"tick"} ELSE {})
    /\ cmds' = <<>>
    /\ io' = <<>>
    /\ lastTick' = NoTick
    /\ crashCost' = [known |-> FALSE, cost |-> 0]
    /\ UNCHANGED <<series, published, pc, telegramEnabled, restarts, faults,
                   engineVars, trades, disk, deviceMode, chargeSeen, cfg, ledgerVars,
                   tomorrowPrices, lastMidnightSwap, shutdown, errorSends, swaps>>

AdvanceLoop == AdvanceTo(MaxClockLoop)

\* variant: the rollover is not remembered
alreadySwappedToday_Never(now) == FALSE

\* lastMidnightSwap.Truncate(24h).Equal(now.Truncate(24h))
alreadySwappedToday(now) == Truncate24h(lastMidnightSwap) = Truncate24h(now)

\* one run of checkPriceFetch
CheckPriceFetch ==
    /\ Serves("price")
    /\ \E fetchOk \in BOOLEAN :
        LET now == HandlerNow
            wantTomorrow == Hour(now) = FetchHour /\ Len(tomorrowPrices) = 0
            tomorrowOk == published /\ ~shutdown
            tomorrow1 == IF wantTomorrow /\ tomorrowOk THEN FetchTomorrowPrices(clock)
                         ELSE tomorrowPrices
            tomorrowIO ==
                IF ~wantTomorrow THEN <<>>
                ELSE <<Call("FetchTomorrowPrices", FALSE)>>
                     \o (IF tomorrowOk THEN planSends ELSE notifySends(FALSE))
            inMidnight == /\ Hour(now) = 0 /\ Minute(now) < MidnightWindowMinutes
                          /\ ~alreadySwappedToday(now)
            prices == FetchTodayPrices(clock)
        IN  IF ~inMidnight
            THEN /\ fetchOk
                 /\ tomorrowPrices' = tomorrow1
                 /\ io' = tomorrowIO
                 /\ IF wantTomorrow /\ ~tomorrowOk THEN notifyError
                    ELSE UNCHANGED <<lastErrorNotify, errorSends>>
                 /\ UNCHANGED <<todayPrices, currentPlan, lastMidnightSwap, swaps, faults>>
            ELSE IF Len(tomorrow1) > 0
            THEN /\ fetchOk
                 /\ todayPrices' = tomorrow1
                 /\ tomorrowPrices' = <<>>
                 /\ currentPlan' = AnalyzePrices(tomorrow1, cfg)
                 /\ lastMidnightSwap' = now
                 /\ swaps' = Append(swaps, now)
                 /\ io' = tomorrowIO \o planSends
                 /\ UNCHANGED <<lastErrorNotify, errorSends, faults>>
            ELSE /\ lastMidnightSwap' = now
                 /\ swaps' = Append(swaps, now)
                 /\ tomorrowPrices' = tomorrow1
                 /\ fetchOk => ~shutdown
                 /\ faults' = faults + (IF fetchOk \/ shutdown THEN 0 ELSE 1)
                 /\ faults' <= MaxFaults
                 /\ IF fetchOk
                    THEN /\ todayPrices' = prices
                         /\ currentPlan' = AnalyzePrices(futurePrices(prices, clock), cfg)
                         /\ io' = tomorrowIO \o <<Call("FetchTodayPrices", FALSE)>>
                                     \o planSends
                         /\ UNCHANGED <<lastErrorNotify, errorSends>>
                    ELSE /\ notifyError
                         /\ io' = tomorrowIO \o <<Call("FetchTodayPrices", FALSE)>>
                                     \o notifySends(FALSE)
                         /\ UNCHANGED <<todayPrices, currentPlan>>
    /\ running' = NoCall
    /\ due' = due \ {"price"}
    /\ cmds' = <<>>
    /\ lastTick' = NoTick
    /\ UNCHANGED <<clock, series, published, pc, tickDue, telegramEnabled, restarts,
                   state, lastPassiveRefresh, currentTradeStart, currentTradePrice,
                   currentTradeSOC, lastChargePrice, trades, disk, deviceMode,
                   crashCost, chargeSeen, cfg, ledgerVars, priceNext, shutdown, starved>>

\* one run of checkDailySummary: the summary is sent in the last minute of the day
CheckDailySummary ==
    /\ Serves("daily")
    /\ io' = IF /\ Hour(HandlerNow) = SummaryHour
                /\ Minute(HandlerNow) = HourMinutes - LoopStep
                /\ telegramEnabled
             THEN <<Call("SendDailySummaryFull", FALSE)>>
             ELSE <<>>
    /\ running' = NoCall
    /\ due' = due \ {"daily"}
    /\ cmds' = <<>>
    /\ lastTick' = NoTick
    /\ UNCHANGED <<clock, series, published, pc, tickDue, telegramEnabled, restarts,
                   faults, engineVars, trades, disk, deviceMode, crashCost, chargeSeen,
                   cfg, ledgerVars, tomorrowPrices, lastMidnightSwap, priceNext, shutdown,
                   errorSends, swaps, starved>>

\* one run of handleTelegramCommands: poll, and answer a /status command
HandleTelegramCommands ==
    /\ Serves("cmd")
    /\ \E statusAsked \in BOOLEAN :
          /\ statusAsked => telegramEnabled /\ ~shutdown
          /\ io' = IF ~telegramEnabled THEN <<>>
                   ELSE <<Call("PollCommands", FALSE)>>
                        \o (IF statusAsked
                            THEN <<Call("GetBatteryStatus", FALSE),
                                   Call("SendStatus", FALSE)>>
                            ELSE <<>>)
    /\ running' = NoCall
    /\ due' = due \ {"cmd"}
    /\ cmds' = <<>>
    /\ lastTick' = NoTick
    /\ UNCHANGED <<clock, series, published, pc, tickDue, telegramEnabled, restarts,
                   faults, engineVars, trades, disk, deviceMode, crashCost, chargeSeen,
                   cfg, ledgerVars, tomorrowPrices, lastMidnightSwap, priceNext, shutdown,
                   errorSends, swaps, starved>>

\* SIGINT or SIGTERM: the context of Start is cancelled
Signal ==
    /\ pc = "running"
    /\ ~shutdown
    /\ shutdown' = TRUE
    /\ UNCHANGED <<clock, series, published, pc, tickDue, telegramEnabled, restarts,
                   faults, engineVars, trades, disk, deviceMode, cmds, lastTick,
                   crashCost, chargeSeen, cfg, ledgerVars, io, tomorrowPrices, lastMidnightSwap,
                   due, priceNext, running, errorSends, swaps, starved>>

\* variant: the loop returns without a command to the battery
shutdownCmds_None(devOk) == <<>>

\* the commands of the ctx.Done() case: battery.Idle()
shutdownCmds(devOk) == <<Cmd("Idle", 0, devOk)>>

\* the select takes ctx.Done(): one idle command, the tickers are stopped and
\* Start returns
Shutdown ==
    /\ pc = "running"
    /\ shutdown
    /\ running.task = "none"
    /\ \E devOk \in BOOLEAN :
          /\ cmds' = shutdownCmds(devOk)
          /\ deviceMode' = IF devOk /\ cmds' # <<>> THEN "idle" ELSE deviceMode
          /\ faults' = faults + (IF devOk THEN 0 ELSE 1)
          /\ faults' <= MaxFaults
    /\ io' = [i \in 1..Len(cmds') |-> Call(cmds'[i].op, FALSE)]
    /\ pc' = "stopped"
    /\ tickDue' = FALSE
    /\ due' = {}
    /\ lastTick' = NoTick
    /\ UNCHANGED <<clock, series, published, telegramEnabled, restarts, engineVars,
                   trades, disk, crashCost, chargeSeen, cfg, ledgerVars, tomorrowPrices,
                   lastMidnightSwap, priceNext, running, shutdown, errorSends, swaps,
                   starved>>

NextLoop ==
    \/ Start
    \/ AdvanceLoop
    \/ Stall
    \/ Tick
    \/ CheckPriceFetch
    \/ CheckDailySummary
    \/ HandleTelegramCommands
    \/ Signal
    \/ Shutdown

SpecLoop == InitLoop /\ [][NextLoop]_vars

\* ------------------------------------------- the price checks of three days
\* the trade file holds as many trades as the model follows, so the engine
\* stays idle and only the price checks matter
FullLedger == MarshalTrades([i \in 1..MaxTrades |-> OldCharge(NewFromFloat(9))])

InitRollover ==
    /\ clock \in LoopStarts
    /\ series \in LoopSeries
    /\ published \in BOOLEAN
    /\ disk = FullLedger
    /\ pc = "new"
    /\ tickDue = FALSE
    /\ state = StateIdle
    /\ currentPlan = NilPlan
    /\ todayPrices = <<>>
    /\ lastPassiveRefresh = ZeroTime
    /\ currentTradeStart = ZeroTime
    /\ currentTradePrice = 0
    /\ currentTradeSOC = 0
    /\ lastChargePrice = 0
    /\ lastErrorNotify = ZeroTime
    /\ telegramEnabled = TRUE
    /\ restarts = 0
    /\ faults = 0
    /\ trades = <<>>
    /\ deviceMode = "auto"
    /\ cmds = <<>>
    /\ lastTick = NoTick
    /\ crashCost = [known |-> FALSE, cost |-> 0]
    /\ chargeSeen = FALSE
    /\ cfg = analyzerConfig
    /\ LoopInit
    /\ LedgerIdle

AdvanceRollover == AdvanceTo(MaxClockRollover)

NextRollover ==
    \/ Start
    \/ AdvanceRollover
    \/ Stall
    \/ CheckPriceFetch
    \/ CheckDailySummary
    \/ HandleTelegramCommands

SpecRollover == InitRollover /\ [][NextRollover]_vars

\* ------------------------------------------- a session over midnight
\* the list of the first day: the cheapest slot is the first, the dearest the
\* last, so that a discharge session runs up to midnight
MidnightSeries == {<<5, 10, 15, 25>>}

\* the lists the provider can publish for the second day: one with nothing
\* worth trading, one like the first day's
DayAheadSeries == {<<10, 11, 12, 11>>, <<5, 10, 15, 25>>}

InitMidnight ==
    /\ clock = 0
    /\ series \in MidnightSeries
    /\ published = FALSE
    /\ disk = <<>>
    /\ pc = "new"
    /\ tickDue = FALSE
    /\ state = StateIdle
    /\ currentPlan = NilPlan
    /\ todayPrices = <<>>
    /\ lastPassiveRefresh = ZeroTime
    /\ currentTradeStart = ZeroTime
    /\ currentTradePrice = 0
    /\ currentTradeSOC = 0
    /\ lastChargePrice = 0
    /\ lastErrorNotify = ZeroTime
    /\ telegramEnabled = FALSE
    /\ restarts = 0
    /\ faults = 0
    /\ trades = <<>>
    /\ deviceMode = "auto"
    /\ cmds = <<>>
    /\ lastTick = NoTick
    /\ crashCost = [known |-> FALSE, cost |-> 0]
    /\ chargeSeen = FALSE
    /\ cfg = analyzerConfig
    /\ LoopInit
    /\ LedgerIdle

\* the provider publishes the list of the next day, at the hour at which
\* the service asks for it
Publish ==
    /\ pc = "running"
    /\ running.task = "none"
    /\ ~published
    /\ clock = FetchHour * HourMinutes
    /\ published' = TRUE
    /\ series' \in DayAheadSeries
    /\ UNCHANGED <<clock, pc, tickDue, telegramEnabled, restarts, faults, engineVars,
                   trades, disk, deviceMode, cmds, lastTick, crashCost, chargeSeen,
                   cfg, io, loopVars, ledgerVars>>

NextMidnight ==
    \/ Start
    \/ Publish
    \/ AdvanceLoop
    \/ TickOf({50})
    \/ CheckPriceFetch
    \/ CheckDailySummary
    \/ HandleTelegramCommands

SpecMidnight == InitMidnight /\ [][NextMidnight]_vars

\* the loop followed over a short horizon, for the claims about its end
AdvanceShort ==
    /\ clock < MaxClockShutdown
    /\ AdvanceLoop

NextShutdown ==
    \/ Start
    \/ AdvanceShort
    \/ Stall
    \/ Tick
    \/ CheckPriceFetch
    \/ CheckDailySummary
    \/ HandleTelegramCommands
    \/ Signal
    \/ Shutdown

\* the handler the loop is in returns from its blocked call
Finish ==
    /\ running.task # "none"
    /\ Tick \/ CheckPriceFetch \/ CheckDailySummary \/ HandleTelegramCommands

\* every blocked call returns (each outbound call has a timeout) and the select,
\* which chooses at random among the ready cases, does not pass over ctx.Done()
\* forever
SpecShutdown ==
    /\ InitShutdown
    /\ [][NextShutdown]_vars
    /\ WF_vars(Finish) /\ WF_vars(Shutdown)

\* ------------------------------------------------- the analyzer on its own
\* prices (in price points) of the lists handed to the analyzer
PriceValues == {0, 10, 30}

\* the lists of 1..MaxSeriesLen values
ValueLists == UNION {[1..n -> PriceValues] : n \in 1..MaxSeriesLen}

\* a price list as the provider may deliver it: in time order or not
Reverse(s) == [i \in 1..Len(s) |-> s[Len(s) + 1 - i]]

\* configurations: every max-cycles value around the default, and powers
\* that give windows of one slot (2000 W) and of two slots (1000 W)
AnalyzerConfigs ==
    {[analyzerConfig EXCEPT !.MaxCyclesPerDay = m, !.ChargePowerW = cp,
                            !.DischargePowerW = dp] :
        m \in (0 - 1)..3, cp \in {ChargePowerW, ChargePowerW \div 2},
        dp \in {DischargePowerW, DischargePowerW \div 2}}

\* configurations for the profitability test: a minimum spread of 0.01 and of
\* 0.05 EUR/kWh, windows of one and of two slots
ProfitConfigs ==
    {[analyzerConfig EXCEPT !.MinPriceSpread = ms, !.ChargePowerW = cp,
                            !.DischargePowerW = dp] :
        ms \in {1, MinPriceSpread}, cp \in {ChargePowerW, ChargePowerW \div 2},
        dp \in {DischargePowerW, DischargePowerW \div 2}}

\* prices around the break-even of 0.10 at 90% (0.1111) and of 0.09 (0.10),
\* and one a full minimum spread above 0.10
ProfitValues == {9, 10, 11, 12, 15}

ProfitLists == UNION {[1..n -> ProfitValues] : n \in 1..MaxSeriesLen}

\* the engine is not started: only the analyzer is called
AnalyzeBase ==
    /\ clock = 0
    /\ series = <<>>
    /\ published = FALSE
    /\ disk = <<>>
    /\ pc = "analyze"
    /\ tickDue = FALSE
    /\ state = StateIdle
    /\ currentPlan = NilPlan
    /\ lastPassiveRefresh = ZeroTime
    /\ currentTradeStart = ZeroTime
    /\ currentTradePrice = 0
    /\ currentTradeSOC = 0
    /\ lastChargePrice = 0
    /\ lastErrorNotify = ZeroTime
    /\ telegramEnabled = FALSE
    /\ restarts = 0
    /\ faults = 0
    /\ trades = <<>>
    /\ deviceMode = "auto"
    /\ cmds = <<>>
    /\ lastTick = NoTick
    /\ crashCost = [known |-> FALSE, cost |-> 0]
    /\ chargeSeen = FALSE
    /\ LoopInit
    /\ LedgerIdle

InitProfit ==
    /\ \E v \in ProfitLists : todayPrices = makePrices(0, v)
    /\ cfg \in ProfitConfigs
    /\ AnalyzeBase

InitAnalyze ==
    /\ clock = 0
    /\ series = <<>>
    /\ published = FALSE
    /\ disk = <<>>
    /\ pc = "analyze"
    /\ tickDue = FALSE
    /\ state = StateIdle
    /\ currentPlan = NilPlan
    /\ \E v \in ValueLists :
          todayPrices \in {makePrices(0, v), Reverse(makePrices(0, v))}
    /\ lastPassiveRefresh = ZeroTime
    /\ currentTradeStart = ZeroTime
    /\ currentTradePrice = 0
    /\ currentTradeSOC = 0
    /\ lastChargePrice = 0
    /\ lastErrorNotify = ZeroTime
    /\ telegramEnabled = FALSE
    /\ restarts = 0
    /\ faults = 0
    /\ trades = <<>>
    /\ deviceMode = "auto"
    /\ cmds = <<>>
    /\ lastTick = NoTick
    /\ crashCost = [known |-> FALSE, cost |-> 0]
    /\ chargeSeen = FALSE
    /\ cfg \in AnalyzerConfigs
    /\ LoopInit
    /\ LedgerIdle

\* batteries of the window size cases: 5.12 kWh with and without the 11 %
\* reserve, 5 kWh, 1 kWh, and a battery whose reserve is all of it; powers
\* negative, zero and positive
WindowConfigs ==
    {[analyzerConfig EXCEPT !.BatteryCapacityWh = b[1], !.BatteryMinSOCPct = b[2],
                            !.ChargePowerW = cp, !.DischargePowerW = dp] :
        b \in {<<5120, 11>>, <<5120, 0>>, <<5000, 0>>, <<1000, 0>>, <<5120, 100>>},
        cp \in {0 - 1, 0, 1000, 2000, 2500},
        dp \in {0 - 1, 0, 1000, 2000, 2500}}

\* n cheap slots followed by n dear ones
StepList(n) == [i \in 1..(2 * n) |-> IF i <= n THEN 0 ELSE 30]

InitWindow ==
    /\ \E n \in 0..MaxWindowSlots : todayPrices = makePrices(0, StepList(n))
    /\ cfg \in WindowConfigs
    /\ AnalyzeBase

\* one call of AnalyzePrices
Analyze ==
    /\ pc = "analyze"
    /\ pc' = "analyzed"
    /\ currentPlan' = AnalyzePrices(todayPrices, cfg)
    /\ UNCHANGED <<clock, series, published, tickDue, telegramEnabled, restarts, faults, state,
                   todayPrices, lastPassiveRefresh, currentTradeStart,
                   currentTradePrice, currentTradeSOC, lastChargePrice,
                   lastErrorNotify, trades, disk, deviceMode, cmds, lastTick,
                   crashCost, chargeSeen, cfg, ledgerVars, io, loopVars>>

\* a day passes after the first call
Later ==
    /\ pc = "analyzed"
    /\ pc' = "later"
    /\ clock' = clock + DayMinutes
    /\ UNCHANGED <<series, published, tickDue, telegramEnabled, restarts, faults, state,
                   currentPlan, todayPrices, lastPassiveRefresh, currentTradeStart,
                   currentTradePrice, currentTradeSOC, lastChargePrice,
                   lastErrorNotify, trades, disk, deviceMode, cmds, lastTick,
                   crashCost, chargeSeen, cfg, ledgerVars, io, loopVars>>

\* a second call of AnalyzePrices with the same list and configuration, at
\* once or a day later
Reanalyze ==
    /\ pc \in {"analyzed", "later"}
    /\ pc' = "reanalyzed"
    /\ currentPlan' = AnalyzePrices(todayPrices, cfg)
    /\ UNCHANGED <<clock, series, published, tickDue, telegramEnabled, restarts, faults, state,
                   todayPrices, lastPassiveRefresh, currentTradeStart,
                   currentTradePrice, currentTradeSOC, lastChargePrice,
                   lastErrorNotify, trades, disk, deviceMode, cmds, lastTick,
                   crashCost, chargeSeen, cfg, ledgerVars, io, loopVars>>

NextAnalyze == Analyze \/ Later \/ Reanalyze

SpecAnalyze == InitAnalyze /\ [][NextAnalyze]_vars

SpecProfit == InitProfit /\ [][NextAnalyze]_vars

SpecWindow == InitWindow /\ [][NextAnalyze]_vars

TypeOK ==
    /\ state \in {StateIdle, StateCharging, StateDischarging}
    /\ pc \in {"new", "running", "failed", "stopped", "analyze", "analyzed",
              "later", "reanalyzed", "down", "ledger", "saving", "writing",
              "written", "client"}
    /\ Len(cmds) <= 1

\* ------------------------------------------------- the recorder on its own
\* a trade of the given day: the price in price points, the length in minutes
LedgerTrade(day, action, price, minutes) ==
    [Timestamp |-> day * DayMinutes + SlotMinutes, Action |-> action,
     PriceEUR |-> NewFromFloat(price), PowerW |-> ChargePowerW,
     DurationS |-> minutes * 60, EnergyKWh |-> ChargePowerW * minutes,
     StartSOC |-> 50, EndSOC |-> 50]

\* the trades the engine hands to RecordTrade
LedgerTrades ==
    { LedgerTrade(0, ActionCharge, 0, 15),
      LedgerTrade(0, ActionCharge, 0 - 5, 15),
      LedgerTrade(0, ActionCharge, 25, 7),
      LedgerTrade(1, ActionDischarge, 10, 15) }

\* no process yet, no trade file
InitLedger ==
    /\ clock = 0
    /\ series = <<>>
    /\ published = FALSE
    /\ disk = <<>>
    /\ pc = "down"
    /\ tickDue = FALSE
    /\ state = StateIdle
    /\ currentPlan = NilPlan
    /\ todayPrices = <<>>
    /\ lastPassiveRefresh = ZeroTime
    /\ currentTradeStart = ZeroTime
    /\ currentTradePrice = 0
    /\ currentTradeSOC = 0
    /\ lastChargePrice = 0
    /\ lastErrorNotify = ZeroTime
    /\ telegramEnabled = FALSE
    /\ restarts = 0
    /\ faults = 0
    /\ trades = <<>>
    /\ deviceMode = "auto"
    /\ cmds = <<>>
    /\ lastTick = NoTick
    /\ crashCost = [known |-> FALSE, cost |-> 0]
    /\ chargeSeen = FALSE
    /\ cfg = analyzerConfig
    /\ LoopInit
    /\ LedgerIdle

\* what the recorder's steps leave alone
LedgerFrame ==
    UNCHANGED <<clock, series, published, tickDue, telegramEnabled, faults, state,
                currentPlan, todayPrices, lastPassiveRefresh, currentTradeStart,
                currentTradePrice, currentTradeSOC, lastChargePrice,
                lastErrorNotify, deviceMode, cmds, lastTick, crashCost,
                chargeSeen, cfg, io, loopVars, trail, query, mu>>

\* NewRecorder and LoadTrades: a missing file leaves the list empty, a file
\* that is not JSON is an error and leaves it empty too
Reload ==
    /\ pc = "down"
    /\ pc' = "ledger"
    /\ trades' = IF ValidJSON(disk) THEN UnmarshalTrades(disk) ELSE <<>>
    /\ saving' = NoSave
    /\ report' = NoReport
    /\ UNCHANGED <<disk, tmp, restarts>>
    /\ LedgerFrame

\* RecordTrade up to the call of os.WriteFile: the append, MkdirAll and
\* MarshalIndent, either of which can fail
RecordBegin ==
    /\ pc = "ledger"
    /\ Len(trades) < MaxLedger
    /\ \E trade \in LedgerTrades, ok \in BOOLEAN :
          /\ trades' = appendTrade(trades, trade)
          /\ saving' = [old |-> disk, new |-> saveData(appendTrade(trades, trade)),
                        failed |-> ~ok]
          /\ pc' = IF ok THEN "saving" ELSE "ledger"
    /\ report' = NoReport
    /\ UNCHANGED <<disk, tmp, restarts>>
    /\ LedgerFrame

\* os.WriteFile(tmpPath) has created or emptied the file and written the
\* first n trades
WriteBegin ==
    /\ pc = "saving"
    /\ pc' = "writing"
    /\ \E n \in 0..(Len(saving.new) - 1) :
          /\ tmp' = File(Truncated(saving.new, n))
          /\ disk' = durableWhileWriting(disk, Truncated(saving.new, n))
    /\ UNCHANGED <<trades, saving, report, restarts>>
    /\ LedgerFrame

\* os.WriteFile returns: the whole data is in the file, or an error left it
\* as it was
WriteEnd ==
    /\ pc = "writing"
    /\ \E ok \in BOOLEAN :
          /\ pc' = IF ok THEN "written" ELSE "ledger"
          /\ tmp' = IF ok THEN File(saving.new) ELSE tmp
          /\ disk' = IF ok THEN durableWhileWriting(disk, saving.new) ELSE disk
          /\ saving' = [saving EXCEPT !.failed = ~ok]
    /\ UNCHANGED <<trades, report, restarts>>
    /\ LedgerFrame

\* os.Rename(tmpPath, path), and os.Remove(tmpPath) when it fails
Rename ==
    /\ pc = "written"
    /\ pc' = "ledger"
    /\ \E ok \in BOOLEAN :
          /\ disk' = IF ok THEN tmp.data ELSE disk
          /\ saving' = [saving EXCEPT !.failed = ~ok]
    /\ tmp' = NoFile
    /\ UNCHANGED <<trades, report, restarts>>
    /\ LedgerFrame

\* GetHistory and GetTotalPnL
Query ==
    /\ pc = "ledger"
    /\ ~report.ran
    /\ report' = [ran |-> TRUE, history |-> GetHistory(trades),
                  total |-> GetTotalPnL(trades)]
    /\ UNCHANGED <<pc, trades, disk, tmp, saving, restarts>>
    /\ LedgerFrame

\* the process is terminated: its memory is lost, the files stay
Terminate ==
    /\ pc \in {"ledger", "saving", "writing", "written"}
    /\ restarts < MaxRestarts
    /\ restarts' = restarts + 1
    /\ pc' = "down"
    /\ trades' = <<>>
    /\ report' = NoReport
    /\ UNCHANGED <<disk, tmp, saving>>
    /\ LedgerFrame

NextLedger ==
    \/ Reload
    \/ RecordBegin
    \/ WriteBegin
    \/ WriteEnd
    \/ Rename
    \/ Query
    \/ Terminate

SpecLedger == InitLedger /\ [][NextLedger]_vars

\* ------------------------------------------------------------------ claims
IsChargeCmd(c) == c.op = "Charge" \/ (c.op = "SetPassiveMode" /\ c.power < 0)

IsDischargeCmd(c) == c.op = "Discharge" \/ (c.op = "SetPassiveMode" /\ c.power > 0)

ChargeIssued == \E i \in 1..Len(cmds) : IsChargeCmd(cmds[i])

DischargeIssued == \E i \in 1..Len(cmds) : IsDischargeCmd(cmds[i])

\* the last action was a tick whose status query succeeded
TickRead == lastTick.ran /\ lastTick.statusOk

\* Start has just reached its loop
JustStarted == pc = "running" /\ ~tickDue /\ ~lastTick.ran

\* price of the slot of the provider's list that holds t, as a decimal
SlotPrice(t) == NewFromFloat(series[((t % DayMinutes) \div SlotMinutes) + 1])

C2_DischargeOnlyAboveBreakeven ==
    (lastTick.ran /\ lastTick.state = StateIdle /\ DischargeIssued)
        => lastTick.price * BatteryEfficiencyPct > lastTick.cost * 100

\* a discharge was started from Idle
C2_Witness ==
    /\ TickRead /\ lastTick.state = StateIdle
    /\ DischargeIssued /\ state = StateDischarging

\* C3: a tick whose telemetry reports SOC >= 100 issues no charge command,
\* neither a session start nor a refresh, in every engine state.
C3_NoChargeWhenFull ==
    (TickRead /\ lastTick.soc >= 100) => ~ChargeIssued

\* SOC 100 reported inside a charge window, charging permitted, engine Idle
C3_Witness ==
    /\ TickRead /\ lastTick.soc >= 100
    /\ lastTick.inChargeWindow /\ lastTick.chargingFlag
    /\ lastTick.state = StateIdle

\* C4: a tick whose telemetry reports SOC at or below the floor issues no
\* discharge command, neither a session start nor a refresh.
C4_NoDischargeAtFloor ==
    (TickRead /\ lastTick.soc <= BatteryMinSOCPct) => ~DischargeIssued

\* SOC at the floor inside a discharge window, discharging permitted, engine
\* Idle, price above breakeven of a known cost-basis
C4_Witness ==
    /\ TickRead /\ lastTick.soc <= BatteryMinSOCPct
    /\ lastTick.inDischargeWindow /\ lastTick.dischargFlag
    /\ lastTick.state = StateIdle /\ lastTick.cost # 0
    /\ lastTick.price * BatteryEfficiencyPct > lastTick.cost * 100

\* C5: when Start reaches its loop, before the first tick, the cost-basis is
\* the price of the last charge trade of the loaded ledger, and zero (unknown)
\* when the ledger holds no charge trade.
C5_CostBasisRestoredAtStartup ==
    JustStarted =>
        /\ \A i \in 1..Len(trades) :
              (/\ trades[i].Action = ActionCharge
               /\ \A j \in (i + 1)..Len(trades) : trades[j].Action # ActionCharge)
                  => lastChargePrice = trades[i].PriceEUR
        /\ (\A i \in 1..Len(trades) : trades[i].Action # ActionCharge)
              => lastChargePrice = 0

\* a restart loaded a ledger holding two charge trades of different prices
C5_Witness ==
    /\ JustStarted /\ restarts > 0 /\ Len(trades) >= 2
    /\ trades[1].Action = ActionCharge /\ trades[Len(trades)].Action = ActionCharge
    /\ trades[1].PriceEUR # trades[Len(trades)].PriceEUR

\* C6 (as claimed): after a restart in which no external call failed, the
\* cost-basis equals the cost-basis held when the process exited.
C6_RestartKeepsCostBasis ==
    (JustStarted /\ crashCost.known /\ faults = 0)
        => lastChargePrice = crashCost.cost

\* C7: a readable tick in Idle with a profitable plan, inside a charge window,
\* SOC < 100 and charging permitted issues exactly one charge command at the
\* charge power; when it succeeds the engine is Charging, the session's start
\* price, SOC and time are recorded and the cost-basis is the slot price.
C7_IdleToCharging ==
    (/\ TickRead /\ lastTick.state = StateIdle /\ lastTick.planOk
     /\ lastTick.inChargeWindow /\ lastTick.soc < 100 /\ lastTick.chargingFlag)
        => /\ Len(cmds) = 1
           /\ cmds[1].op = "Charge" /\ cmds[1].power = ChargePowerW
           /\ cmds[1].ok =>
                 /\ state = StateCharging
                 /\ currentTradePrice = SlotPrice(lastTick.now)
                 /\ currentTradeSOC = lastTick.soc
                 /\ currentTradeStart = lastTick.now
                 /\ lastChargePrice = SlotPrice(lastTick.now)
           /\ ~cmds[1].ok => state = StateIdle

\* a charge session was started over an older, different cost-basis
C7_Witness ==
    /\ TickRead /\ lastTick.state = StateIdle /\ lastTick.inChargeWindow
    /\ state = StateCharging /\ Len(cmds) = 1 /\ cmds[1].ok
    /\ lastTick.cost # 0 /\ lastTick.cost # lastChargePrice

\* C8 (as claimed): with a cost-basis that comes from a recorded charge, a
\* readable tick in Idle inside a discharge window, SOC above the floor,
\* discharging permitted and price > cost-basis / efficiency issues a
\* discharge command at the discharge power and, when it succeeds, ends in
\* Discharging with the session's start price and SOC recorded.
C8_IdleToDischarging ==
    (/\ TickRead /\ lastTick.state = StateIdle /\ lastTick.planOk
     /\ lastTick.inDischargeWindow /\ lastTick.soc > BatteryMinSOCPct
     /\ lastTick.dischargFlag /\ HasCharge(trades)
     /\ lastTick.cost = trades[Len(trades)].PriceEUR
     /\ trades[Len(trades)].Action = ActionCharge
     /\ lastTick.price * BatteryEfficiencyPct > lastTick.cost * 100)
        => /\ Len(cmds) = 1
           /\ cmds[1].op = "Discharge" /\ cmds[1].power = DischargePowerW
           /\ cmds[1].ok =>
                 /\ state = StateDischarging
                 /\ currentTradePrice = lastTick.price
                 /\ currentTradeSOC = lastTick.soc

\* C9 (as claimed): a readable tick in Charging that finds the time outside
\* every charge window, or SOC >= 100, ends Idle with an idle command issued
\* and exactly one charge trade appended, energy = charge power x duration.
C9_ChargingStops ==
    (/\ TickRead /\ lastTick.state = StateCharging
     /\ (~lastTick.inChargeWindow \/ lastTick.soc >= 100))
        => /\ state = StateIdle
           /\ Len(cmds) = 1 /\ cmds[1].op = "Idle"
           /\ Len(trades) = lastTick.nTrades + 1
           /\ trades[Len(trades)].Action = ActionCharge
           /\ trades[Len(trades)].EnergyKWh
                 = ChargePowerW * (lastTick.now - lastTick.tradeStart)

\* C10 (as claimed): a readable tick in Discharging that finds the time
\* outside every discharge window, or SOC at or below the floor, ends Idle
\* with an idle command issued and exactly one discharge trade appended whose
\* price is the session's start price.
C10_DischargingStops ==
    (/\ TickRead /\ lastTick.state = StateDischarging
     /\ (~lastTick.inDischargeWindow \/ lastTick.soc <= BatteryMinSOCPct))
        => /\ state = StateIdle
           /\ Len(cmds) = 1 /\ cmds[1].op = "Idle"
           /\ Len(trades) = lastTick.nTrades + 1
           /\ trades[Len(trades)].Action = ActionDischarge
           /\ trades[Len(trades)].PriceEUR = lastTick.tradePrice

\* C12 (as claimed): a tick in which a device call failed (the status query,
\* or the charge, discharge, refresh or idle command) ends with the engine
\* state, the cost-basis and the ledger as they were when it began, and has
\* made the failed call once.
C12_FailedCallChangesNothing ==
    (/\ lastTick.ran
     /\ (~lastTick.statusOk \/ \E i \in 1..Len(cmds) : ~cmds[i].ok))
        => /\ state = lastTick.state
           /\ lastChargePrice = lastTick.cost
           /\ Len(trades) = lastTick.nTrades
           /\ Len(cmds) <= 1

\* the plan returned by a call of AnalyzePrices
\* C11 (as claimed): a tick that finds the engine Charging (or Discharging)
\* with the time inside a charge (discharge) window and the SOC below full
\* (above the floor) keeps the state; it sends the session's power command
\* once, as a passive-mode command, when the time since the last refresh is
\* more than 80% of the countdown, and sends no command when it is not.
C11_RefreshOnlyPastThreshold ==
    LET elapsedS == (lastTick.end - lastTick.refreshed) * 60
        power == IF lastTick.state = StateCharging THEN 0 - ChargePowerW
                 ELSE DischargePowerW
        valid == \/ /\ lastTick.state = StateCharging
                    /\ lastTick.inChargeWindow /\ lastTick.soc < 100
                 \/ /\ lastTick.state = StateDischarging
                    /\ lastTick.inDischargeWindow /\ lastTick.soc > BatteryMinSOCPct
    IN  (TickRead /\ valid)
            => /\ state = lastTick.state
               /\ IF elapsedS > refreshThresholdS
                  THEN /\ Len(cmds) = 1
                       /\ cmds[1].op = "SetPassiveMode" /\ cmds[1].power = power
                  ELSE cmds = <<>>

\* C13 (as claimed): no external call of the last handler (a device command
\* or status query, a price fetch, a notification send) was made with the
\* state lock s.mu held.
C13_NoLockAcrossIO ==
    \A i \in 1..Len(io) : ~io[i].locked

\* C14 (as claimed): while the external call of one periodic task is
\* outstanding, no other task's ticker value is left waiting: time never
\* passes inside a blocked handler with another task due and not served.
C14_StallDegradesOnlyItsTask ==
    starved = {}

\* C15: once the shutdown signal has arrived, the loop eventually returns with
\* every ticker stopped, and the last thing it did was to send exactly one
\* idle command to the battery, whatever the engine state.
C15_ShutdownSendsIdle ==
    shutdown ~> (/\ pc = "stopped"
                 /\ ~tickDue /\ due = {}
                 /\ Len(cmds) = 1 /\ cmds[1].op = "Idle")

\* the loop has returned after a signal that arrived with a session in progress
C15_Witness ==
    /\ pc = "stopped" /\ shutdown
    /\ state # StateIdle
    /\ Len(cmds) = 1 /\ cmds[1].op = "Idle"

\* C16: no two midnight rollovers fall in the same local day, whatever price
\* checks were delayed, missed or repeated inside the midnight window.
C16_RolloverAtMostOncePerDay ==
    \A i, j \in 1..Len(swaps) :
        i < j => localMidnight(swaps[i]) # localMidnight(swaps[j])

\* a price check has run inside the midnight window after the rollover of that
\* day had been performed by an earlier check
C16_Witness ==
    /\ Len(swaps) = 1
    /\ Hour(clock) = 0 /\ Minute(clock) < MidnightWindowMinutes
    /\ localMidnight(swaps[1]) = localMidnight(clock) /\ swaps[1] < clock
    /\ priceNext - PriceCheckMinutes = clock
    /\ "price" \notin due /\ running.task = "none"

\* C17: within one run of the process, any two error notifications sent to
\* the user are at least the cooldown (15 minutes) apart.
C17_ErrorNotificationsRateLimited ==
    \A i, j \in 1..Len(errorSends) :
        i < j => errorSends[j] - errorSends[i] >= ErrorCooldownMinutes

\* a second error notification has been sent after the cooldown of the first,
\* with a failure in between that was not notified
C17_Witness ==
    /\ Len(errorSends) >= 2
    /\ faults >= 2

Analyzed == pc = "analyzed"

\* C18: in every plan the analyzer returns for a 15-minute price list, each
\* cycle's charge window ends no later than its discharge window starts.
C18_ChargeEndsBeforeDischarge ==
    Analyzed =>
        \A k \in 1..Len(currentPlan.Cycles) :
            currentPlan.Cycles[k].ChargeWindow.End
                <= currentPlan.Cycles[k].DischargeWindow.Start

\* a cycle with a two-slot charge window directly followed by its discharge
\* window, found in a list delivered out of time order
C18_Witness ==
    /\ Analyzed /\ Len(currentPlan.Cycles) >= 1
    /\ currentPlan.Cycles[1].ChargeWindow.Size = 2
    /\ currentPlan.Cycles[1].ChargeWindow.End
          = currentPlan.Cycles[1].DischargeWindow.Start
    /\ Len(todayPrices) >= 2 /\ todayPrices[1].Time > todayPrices[2].Time

\* C19: in every plan the analyzer returns, each cycle's discharge window
\* ends no later than the next cycle's charge window starts.
C19_CyclesDoNotOverlap ==
    Analyzed =>
        \A k \in 1..(Len(currentPlan.Cycles) - 1) :
            currentPlan.Cycles[k].DischargeWindow.End
                <= currentPlan.Cycles[k + 1].ChargeWindow.Start

\* a plan of two cycles
C19_Witness ==
    /\ Analyzed /\ Len(currentPlan.Cycles) >= 2

PointAt(i) == (CHOOSE k \in 1..Len(todayPrices) :
                  todayPrices[k].Time = (i - 1) * SlotMinutes)

\* sum of the values of the size slots from the 0-based slot a on
SumFrom(a, size) ==
    LET RECURSIVE add(_)
        add(j) == IF j >= size THEN 0
                  ELSE todayPrices[PointAt(a + j + 1)].Value + add(j + 1)
    IN  add(0)

\* 0-based index of the slot that starts at t, Len(todayPrices) past the list
IndexOf(t) == t \div SlotMinutes

\* window sizes of the configuration in use
ChargeSize ==
    calculateWindowSize(cfg.BatteryCapacityWh * (100 - cfg.BatteryMinSOCPct),
                        cfg.ChargePowerW)

DischargeSize ==
    calculateWindowSize(cfg.BatteryCapacityWh * (100 - cfg.BatteryMinSOCPct),
                        cfg.DischargePowerW)

\* charge window at slot a and discharge window at slot b: both tests of the
\* specification on the window means, cross-multiplied
Qualifies(a, b) ==
    /\ SumFrom(b, DischargeSize) * ChargeSize * cfg.EfficiencyPct
          > SumFrom(a, ChargeSize) * DischargeSize * 100
    /\ SumFrom(b, DischargeSize) * ChargeSize - SumFrom(a, ChargeSize) * DischargeSize
          >= cfg.MinPriceSpread * ChargeSize * DischargeSize

\* discharge mean * efficiency - charge mean, on the common denominator
ProfitOf(a, b) ==
    SumFrom(b, DischargeSize) * ChargeSize * cfg.EfficiencyPct
        - SumFrom(a, ChargeSize) * DischargeSize * 100

QualifyingPairs(k) ==
    {ab \in (k..(Len(todayPrices) - ChargeSize)) \X (0..(Len(todayPrices) - DischargeSize)) :
        /\ ab[2] >= ab[1] + ChargeSize
        /\ Qualifies(ab[1], ab[2])}

\* cursor of search round i: the start of the list, then the first slot at or
\* after the end of the discharge window chosen by the round before
Cursor(i) ==
    IF i = 1 THEN 0 ELSE IndexOf(currentPlan.Cycles[i - 1].DischargeWindow.End)

TooShort == Len(todayPrices) < ChargeSize \/ Len(todayPrices) < DischargeSize

\* the plan has no cycle and no window and is not profitable
NothingPlanned ==
    /\ ~currentPlan.IsNil
    /\ currentPlan.Cycles = <<>>
    /\ currentPlan.ChargeWindows = <<>>
    /\ currentPlan.DischargeWindows = <<>>
    /\ ~currentPlan.IsProfitable

\* C23: a list shorter than the charge or the discharge window size gives a
\* plan without cycles or windows, not profitable, whose minimum, maximum and
\* spread are those of the list (next to the day of the list); the empty list
\* gives a plan that exists, has no windows and is not profitable.
C23_InsufficientData ==
    Analyzed =>
        /\ TooShort => NothingPlanned
        /\ (TooShort /\ todayPrices # <<>>) =>
              /\ \A i \in 1..Len(todayPrices) :
                    /\ currentPlan.MinPrice <= todayPrices[i].Value
                    /\ currentPlan.MaxPrice >= todayPrices[i].Value
              /\ \E i \in 1..Len(todayPrices) : currentPlan.MinPrice = todayPrices[i].Value
              /\ \E i \in 1..Len(todayPrices) : currentPlan.MaxPrice = todayPrices[i].Value
              /\ currentPlan.Spread = currentPlan.MaxPrice - currentPlan.MinPrice
        /\ todayPrices = <<>> => NothingPlanned

\* a list of six points with different prices, too short for a window of
\* eight slots
C23_Witness ==
    /\ Analyzed
    /\ TooShort
    /\ Len(todayPrices) = 6
    /\ ChargeSize = 8
    /\ currentPlan.MinPrice = 0
    /\ currentPlan.MaxPrice = 30
    /\ currentPlan.Spread = 30

\* the empty list was analyzed
C23_WitnessEmpty == Analyzed /\ todayPrices = <<>> /\ ~currentPlan.IsNil

\* s is the least whole number of slots with s * power / 4 >= usable capacity,
\* and at least 1; for power that is not positive it is 8
RequiredSize(s, powerW) ==
    LET usable4 == cfg.BatteryCapacityWh * (100 - cfg.BatteryMinSOCPct) * 4
        power100 == powerW * 100
    IN  IF powerW <= 0 THEN s = 8
        ELSE \/ s = 1 /\ usable4 <= power100
             \/ s > 1 /\ (s - 1) * power100 < usable4 /\ usable4 <= s * power100

\* the battery of the configuration
Battery(capacityWh, minSOCPct) ==
    cfg.BatteryCapacityWh = capacityWh /\ cfg.BatteryMinSOCPct = minSOCPct

\* both powers of the configuration
Powers(powerW) == cfg.ChargePowerW = powerW /\ cfg.DischargePowerW = powerW

\* the plan has one cycle whose two windows are s slots long
OneCycleOf(s) ==
    /\ Len(currentPlan.Cycles) >= 1
    /\ currentPlan.Cycles[1].ChargeWindow.End - currentPlan.Cycles[1].ChargeWindow.Start
          = s * SlotMinutes
    /\ currentPlan.Cycles[1].DischargeWindow.End - currentPlan.Cycles[1].DischargeWindow.Start
          = s * SlotMinutes

\* C25: the windows of a plan are ceil(usable capacity / power * 4) slots long
\* for positive power, never less than one slot, and 8 slots for power that
\* is not positive; a list of n cheap and n dear slots gets a cycle exactly
\* when the two required sizes fit into it one after the other; 4.5568 kWh
\* usable at 2500 W needs 8 slots, 5.12 kWh needs 9, 5 kWh needs 8.
C25_WindowSize ==
    Analyzed =>
        /\ \A i \in 1..Len(currentPlan.Cycles) :
              /\ \E s \in 1..Len(todayPrices) :
                    /\ RequiredSize(s, cfg.ChargePowerW)
                    /\ currentPlan.Cycles[i].ChargeWindow.End
                         - currentPlan.Cycles[i].ChargeWindow.Start = s * SlotMinutes
              /\ \E s \in 1..Len(todayPrices) :
                    /\ RequiredSize(s, cfg.DischargePowerW)
                    /\ currentPlan.Cycles[i].DischargeWindow.End
                         - currentPlan.Cycles[i].DischargeWindow.Start = s * SlotMinutes
        /\ currentPlan.Cycles # <<>>
              <=> \E sc, sd \in 1..Len(todayPrices) :
                      /\ RequiredSize(sc, cfg.ChargePowerW)
                      /\ RequiredSize(sd, cfg.DischargePowerW)
                      /\ sc + sd <= Len(todayPrices)
        /\ (Battery(5120, 11) /\ Powers(2500) /\ Len(todayPrices) = 16) => OneCycleOf(8)
        /\ (Battery(5120, 0) /\ Powers(2500) /\ Len(todayPrices) = 16)
              => currentPlan.Cycles = <<>>
        /\ (Battery(5120, 0) /\ Powers(2500) /\ Len(todayPrices) = 18) => OneCycleOf(9)
        /\ (Battery(5000, 0) /\ Powers(2500) /\ Len(todayPrices) = 16) => OneCycleOf(8)
        /\ (Battery(5000, 0) /\ Powers(0) /\ Len(todayPrices) = 16) => OneCycleOf(8)
        /\ (Battery(5120, 100) /\ Powers(2500) /\ Len(todayPrices) = 2) => OneCycleOf(1)

\* 5.12 kWh at 2500 W planned with windows of nine slots
C25_Witness ==
    /\ Analyzed
    /\ Battery(5120, 0)
    /\ Powers(2500)
    /\ OneCycleOf(9)

C26_CrashSafeFile ==
    /\ ValidJSON(disk)
    /\ saving # NoSave => disk \in {saving.old, saving.new}
    /\ (pc = "ledger" /\ restarts > 0 /\ saving = NoSave)
          => /\ Len(trades) = Len(disk)
             /\ MarshalTrades(trades) = disk

\* the process was terminated between the temporary write and the rename of
\* an append to a file that held a trade, and has loaded the file again
C26_Witness ==
    /\ pc = "ledger"
    /\ restarts = 1
    /\ saving = NoSave
    /\ tmp.exists
    /\ ValidJSON(tmp.data)
    /\ Len(tmp.data) = Len(disk) + 1
    /\ Len(trades) >= 1

\* the process is down after being terminated while os.WriteFile was writing
C26_WitnessTorn ==
    /\ pc = "down"
    /\ tmp.exists
    /\ ~ValidJSON(tmp.data)
    /\ disk = saving.old
    /\ disk # <<>>

\* the trades of all days of the history, and its cycle counts
HistoryTrades ==
    UNION {{report.history.Days[d].Trades[i] :
              i \in 1..Len(report.history.Days[d].Trades)} :
           d \in 1..Len(report.history.Days)}

\* number of trades the days of the history hold
RECURSIVE HistoryCount(_)
HistoryCount(d) ==
    IF d = 0 THEN 0
    ELSE report.history.Days[d].ChargeCycles + report.history.Days[d].DischargeCycles
         + HistoryCount(d - 1)

\* C27: after a save that failed, the trade is in the list in memory and the
\* file is the one from before the save; the history answered from memory
\* holds and counts every trade of the list; after a save that succeeded the
\* file holds the whole list in memory, the trades whose own save failed
\* among them.
C27_FailedSaveKeepsTrade ==
    /\ (pc = "ledger" /\ saving # NoSave /\ saving.failed)
          => /\ trades # <<>>
             /\ MarshalTrades(trades) = saving.new
             /\ disk = saving.old
             /\ disk # MarshalTrades(trades)
    /\ report.ran
          => /\ HistoryTrades = {trades[i] : i \in 1..Len(trades)}
             /\ HistoryCount(Len(report.history.Days)) = Len(trades)
             /\ report.history.TotalDays = Len(report.history.Days)
    /\ (pc = "ledger" /\ saving # NoSave /\ ~saving.failed)
          => disk = MarshalTrades(trades)

\* the history was answered after the save of the second trade failed
C27_Witness ==
    /\ report.ran
    /\ saving # NoSave
    /\ saving.failed
    /\ Len(trades) = 2
    /\ Len(disk) = 1

\* a save succeeded after the save before it had failed
C27_WitnessRecovered ==
    /\ pc = "ledger"
    /\ saving # NoSave
    /\ ~saving.failed
    /\ Len(saving.new) = Len(saving.old) + 2
    /\ disk = MarshalTrades(trades)

\* C28: while the process runs, every step leaves the list as it is or puts
\* one trade behind the trades it held, which keep their values and order;
\* RecordTrade does the latter also when the save fails.
C28_AppendOnly ==
    [][/\ (pc # "down" /\ pc' # "down")
            => \/ trades' = trades
               \/ /\ Len(trades') = Len(trades) + 1
                  /\ SubSeq(trades', 1, Len(trades)) = trades
       /\ (pc = "ledger" /\ saving' # saving)
            => /\ Len(trades') = Len(trades) + 1
               /\ SubSeq(trades', 1, Len(trades)) = trades
               /\ MarshalTrades(<<trades'[Len(trades')]>>)
                    = SubSeq(saving'.new, Len(saving'.new), Len(saving'.new))]_vars

\* three different trades recorded, the save of the last one failed
C28_Witness ==
    /\ pc = "ledger"
    /\ Len(trades) = 3
    /\ saving # NoSave
    /\ saving.failed
    /\ trades[1] # trades[2]
    /\ trades[2] # trades[3]

\* sum of the values of a function over its domain
SumOf(f) ==
    LET RECURSIVE sum(_)
        sum(I) == IF I = {} THEN 0
                  ELSE LET i == CHOOSE j \in I : TRUE IN f[i] + sum(I \ {i})
    IN  sum(DOMAIN f)

\* revenue of a discharge trade, cost of a charge trade counted negative
RawPnL(trade) ==
    IF trade.Action = ActionDischarge THEN trade.PriceEUR * trade.EnergyKWh
    ELSE IF trade.Action = ActionCharge THEN 0 - trade.PriceEUR * trade.EnergyKWh
    ELSE 0

\* C29: for every trade list, GetTotalPnL is the sum of revenue minus cost
\* over the trades, and the per-day profit/loss figures of GetHistory add up
\* to it, as does the TotalPnL of the history.
C29_TotalsAgree ==
    report.ran =>
        /\ report.total = SumOf([i \in 1..Len(trades) |-> RawPnL(trades[i])])
        /\ report.total
             = SumOf([d \in 1..Len(report.history.Days) |-> report.history.Days[d].PnLEUR])
        /\ report.total = report.history.TotalPnL

\* a history of two days, one of them with a profit that is not a whole
\* number of cents
C29_Witness ==
    /\ report.ran
    /\ Len(report.history.Days) = 2
    /\ report.total # 0
    /\ \E d \in 1..2 : report.history.Days[d].PnLEUR % 6000000 # 0

\* the trades of the list of the given day and action, by position
TradesOf(key, action) ==
    {i \in 1..Len(trades) :
        localMidnight(trades[i].Timestamp) = key /\ trades[i].Action = action}

\* avg is the decimal nearest to the quotient of the summed price * energy
\* and the summed energy of the trades at the positions I, zero without energy
IsWeightedAverage(avg, I) ==
    LET energy == SumOf([i \in I |-> trades[i].EnergyKWh])
        value == SumOf([i \in I |-> trades[i].PriceEUR * trades[i].EnergyKWh])
        diff == avg * energy - value
    IN  IF energy = 0 THEN avg = 0
        ELSE 2 * diff <= energy /\ 2 * (0 - diff) <= energy

\* C30: the history has one summary for each day with a trade; its average
\* charge price is the sum of price * energy over the charge trades of the
\* day divided by the sum of their energy, zero when the day has no charged
\* energy, and its average discharge price is the same over the discharge
\* trades.
C30_EnergyWeightedAverage ==
    report.ran =>
        /\ {report.history.Days[d].Date : d \in 1..Len(report.history.Days)}
             = {localMidnight(trades[i].Timestamp) : i \in 1..Len(trades)}
        /\ \A d, e \in 1..Len(report.history.Days) :
              report.history.Days[d].Date = report.history.Days[e].Date => d = e
        /\ \A d \in 1..Len(report.history.Days) :
              /\ IsWeightedAverage(report.history.Days[d].AvgChargePrice,
                                   TradesOf(report.history.Days[d].Date, ActionCharge))
              /\ IsWeightedAverage(report.history.Days[d].AvgDischargePrice,
                                   TradesOf(report.history.Days[d].Date, ActionDischarge))

\* a day with two charge trades of different price and energy and no
\* discharge: the average is not the mean of the two prices
C30_Witness ==
    /\ report.ran
    /\ \E d \in 1..Len(report.history.Days) :
          LET day == report.history.Days[d]
          IN  /\ day.ChargeCycles = 2
              /\ day.DischargeCycles = 0
              /\ day.AvgDischargePrice = 0
              /\ day.Trades[1].EnergyKWh # day.Trades[2].EnergyKWh
              /\ 2 * day.AvgChargePrice # day.Trades[1].PriceEUR + day.Trades[2].PriceEUR

\* C31 (as claimed): for each day of the history with a charge trade, the
\* minimum charge price is the smallest price among the charge trades of the
\* day, whatever the prices are, zero and negative ones included.
C31_MinChargePrice ==
    report.ran =>
        \A d \in 1..Len(report.history.Days) :
            LET I == TradesOf(report.history.Days[d].Date, ActionCharge)
            IN  I # {} =>
                  /\ \E i \in I : report.history.Days[d].MinChargePrice = trades[i].PriceEUR
                  /\ \A i \in I : report.history.Days[d].MinChargePrice <= trades[i].PriceEUR

Undisturbed(n) ==
    /\ trail.on
    /\ Len(trail.ticks) >= n
    /\ \A i \in 1..n :
          /\ trail.ticks[i].now = (i - 1) * SlotMinutes
          /\ trail.ticks[i].statusOk
          /\ trail.ticks[i].soc = 50
          /\ trail.ticks[i].chargingFlag
          /\ trail.ticks[i].dischargFlag
          /\ \A k \in 1..Len(trail.ticks[i].cmds) : trail.ticks[i].cmds[k].ok

\* the recorded ticks that issued a command of the given kind
TicksIssuing(op) ==
    {i \in 1..Len(trail.ticks) :
        \E k \in 1..Len(trail.ticks[i].cmds) : trail.ticks[i].cmds[k].op = op}

\* C32: with prices 0.05, 0.15, 0.25, 0.10, windows of one slot, efficiency
\* 0.90, minimum spread 0.05 and SOC 50, the ticks at the starts of slots 0,
\* 1, 2, 3 end in Charging (session price 0.05), Idle (cost-basis 0.05),
\* Discharging (price 0.25, above the breakeven of about 0.0556) and Idle;
\* one charge command and one discharge command are issued in all.
C32_FullSequence ==
    /\ Undisturbed(1) =>
          /\ trail.ticks[1].state = StateCharging
          /\ trail.ticks[1].tradePrice = NewFromFloat(5)
          /\ trail.ticks[1].cmds = <<Cmd("Charge", ChargePowerW, TRUE)>>
    /\ Undisturbed(2) =>
          /\ trail.ticks[2].state = StateIdle
          /\ trail.ticks[2].cost = NewFromFloat(5)
          /\ trail.ticks[2].cmds = <<Cmd("Idle", 0, TRUE)>>
    /\ Undisturbed(3) =>
          /\ trail.ticks[3].state = StateDischarging
          /\ trail.ticks[3].cost = NewFromFloat(5)
          /\ trail.ticks[3].tradePrice = NewFromFloat(25)
          /\ trail.ticks[3].tradePrice * BatteryEfficiencyPct > trail.ticks[3].cost * 100
          /\ trail.ticks[3].cmds = <<Cmd("Discharge", DischargePowerW, TRUE)>>
    /\ Undisturbed(4) =>
          /\ trail.ticks[4].state = StateIdle
          /\ trail.ticks[4].cmds = <<Cmd("Idle", 0, TRUE)>>
          /\ Cardinality(TicksIssuing("Charge")) = 1
          /\ Cardinality(TicksIssuing("Discharge")) = 1
          /\ TicksIssuing("SetPassiveMode") = {}

\* the four ticks of the sequence have run undisturbed
C32_Witness ==
    /\ Undisturbed(4)
    /\ Len(trail.ticks) = 4
    /\ state = StateIdle
    /\ Len(trades) = 2

\* minutes the slot starting at t shares with the session from a to b
SharedMinutes(t, a, b) ==
    LET from == IF a > t THEN a ELSE t
        to == IF b < t + SlotMinutes THEN b ELSE t + SlotMinutes
    IN  IF to > from THEN to - from ELSE 0

\* p is the decimal nearest to the mean of the slot prices of the list, each
\* weighted by the minutes its slot shares with the session from a to b
IsSessionAverage(p, a, b) ==
    LET weighted == SumOf([i \in 1..Len(todayPrices) |->
                             NewFromFloat(todayPrices[i].Value)
                               * SharedMinutes(todayPrices[i].Time, a, b)])
        minutes == SumOf([i \in 1..Len(todayPrices) |->
                            SharedMinutes(todayPrices[i].Time, a, b)])
        diff == p * minutes - weighted
    IN  /\ minutes > 0
        /\ 2 * diff <= minutes
        /\ 2 * (0 - diff) <= minutes

\* C34 (as claimed): when a tick ends a charge session, the price of the
\* appended trade and the new cost-basis are the time-weighted average of the
\* slot prices over the session, each slot weighted by the minutes it shares
\* with the session, for every price list, zero and negative prices included.
C34_SessionAverage ==
    (/\ TickRead /\ lastTick.state = StateCharging /\ state = StateIdle
     /\ Len(trades) = lastTick.nTrades + 1)
        => /\ IsSessionAverage(trades[Len(trades)].PriceEUR,
                               lastTick.tradeStart, lastTick.now)
           /\ lastChargePrice = trades[Len(trades)].PriceEUR

\* the same for the sessions whose average is not zero
C34_NonZeroAverage ==
    (/\ TickRead /\ lastTick.state = StateCharging /\ state = StateIdle
     /\ Len(trades) = lastTick.nTrades + 1
     /\ ~IsSessionAverage(0, lastTick.tradeStart, lastTick.now))
        => /\ IsSessionAverage(trades[Len(trades)].PriceEUR,
                               lastTick.tradeStart, lastTick.now)
           /\ lastChargePrice = trades[Len(trades)].PriceEUR

\* the requests of the last query, by method
RequestsOf(method) == { i \in 1..Len(query.sent) : query.sent[i] = method }

\* the reply is a battery status, or an energy-system status
Succeeded(reply) == reply.err = "nil" /\ reply.valid

\* C35: a battery-status query sends Bat.GetStatus at most twice and
\* ES.GetStatus at most once, the latter only after both Bat.GetStatus requests
\* failed; it stops at the first request that succeeds and returns its status;
\* it returns an error only when all three requests failed, and the error is
\* that of the second Bat.GetStatus request.
C35_RetryThenFallback ==
    query # NoQuery =>
        LET n == Len(query.sent)
            last == query.replies[n]
        IN  /\ Len(query.replies) = n
            /\ n \in 1..3
            /\ Cardinality(RequestsOf(MethodBatStatus)) <= 2
            /\ Cardinality(RequestsOf(MethodESStatus)) <= 1
            /\ \A i \in 1..n : query.sent[i] = MethodESStatus <=> i = 3
            /\ \A i \in 1..(n - 1) : ~Succeeded(query.replies[i])
            /\ Succeeded(last) <=> query.err = "nil"
            /\ (query.err = "nil" /\ n < 3) => query.status.SOC = last.SOC
            /\ (query.err = "nil" /\ n = 3) => query.status.SOC = last.BatterySOC
            /\ query.err # "nil" =>
                   /\ n = 3
                   /\ query.status = <<>>
                   /\ query.err = IF query.replies[2].err # "nil"
                                  THEN query.replies[2].err
                                  ELSE "unmarshal battery status"

\* both Bat.GetStatus requests fail with different errors and the fallback
\* fails with a third: the query returns the second request's error
C35_Witness ==
    /\ Len(query.sent) = 3
    /\ query.replies[1].err = "read response"
    /\ query.replies[2].err = "rpc error"
    /\ query.replies[3].err = "not connected"
    /\ query.err = "rpc error"

\* the first request fails, the retry succeeds
C35_RetryWitness ==
    /\ Len(query.sent) = 2
    /\ ~Succeeded(query.replies[1])
    /\ query.err = "nil"
    /\ query.status.SOC = 50

\* the action of the trade that records a session of the given state
SessionAction(st) == IF st = StateCharging THEN ActionCharge ELSE ActionDischarge

\* C36 (as claimed): a tick that takes the engine from Charging or
\* Discharging to Idle, by whatever path, appends exactly one Trade, of the
\* session's action and with the session's start time.
C36_SessionEndsWithTrade ==
    (TickRead /\ lastTick.state # StateIdle /\ state = StateIdle)
        => /\ Len(trades) = lastTick.nTrades + 1
           /\ trades[Len(trades)].Action = SessionAction(lastTick.state)
           /\ trades[Len(trades)].Timestamp = lastTick.tradeStart

\* the same for the ticks that find a plan worth trading
C36_PlannedSessionEndsWithTrade ==
    (TickRead /\ lastTick.state # StateIdle /\ state = StateIdle /\ lastTick.planOk)
        => /\ Len(trades) = lastTick.nTrades + 1
           /\ trades[Len(trades)].Action = SessionAction(lastTick.state)
           /\ trades[Len(trades)].Timestamp = lastTick.tradeStart

\* the last command the battery accepted drives it
DeviceDriven == deviceMode \in {"charge", "discharge"}

\* C37 (as claimed): whenever the engine is Idle at the end of a tick, after
\* any ticks, failed commands and restarts, the last command the battery
\* accepted is not a charge or discharge command.
C37_IdleMeansDeviceIdle ==
    (lastTick.ran /\ state = StateIdle) => ~DeviceDriven

\* the same while no call has failed and the process has not exited
C37_IdleMeansDeviceIdleNoFault ==
    (lastTick.ran /\ state = StateIdle /\ faults = 0 /\ restarts = 0) => ~DeviceDriven

\* the operations alternate, beginning with first, and end with the other
Alternates(ops, first, other) ==
    /\ Len(ops) % 2 = 0
    /\ \A i \in 1..Len(ops) : ops[i] = IF i % 2 = 1 THEN first ELSE other

\* C38: on every path of a tick the operations on s.mu alternate Lock,
\* Unlock, ..., Lock, Unlock, so no Unlock meets a free lock, no Lock meets
\* a held one, and the lock is free when the tick returns; the helper the tick
\* calls is entered with the lock held, does Unlock, Lock, ..., Unlock, Lock
\* and so returns with the lock held, on its error return too; a tick whose
\* status query succeeded takes the lock.
C38_LocksBalanced ==
    (lastTick.ran /\ mu.on)
        => /\ Alternates(mu.ops, "Lock", "Unlock")
           /\ Alternates(mu.helper, "Unlock", "Lock")
           /\ lastTick.statusOk <=> mu.ops # <<>>

\* a start command has just failed: the helper returned on its error path
C38_Witness ==
    /\ lastTick.ran /\ mu.on
    /\ cmds # <<>> /\ cmds[1].op = "Charge" /\ ~cmds[1].ok
    /\ mu.helper = <<"Unlock", "Lock">>
    /\ Len(mu.ops) = 4

\* a session has just been stopped: three external calls outside the lock
C38_StopWitness ==
    /\ lastTick.ran /\ mu.on
    /\ lastTick.state = StateDischarging /\ state = StateIdle
    /\ Len(mu.helper) = 6

\* C39 (as claimed): a rollover installs as today's prices a list that
\* begins at the midnight of the day on which the rollover is done, never the
\* list of an earlier day, whatever price checks were late or missed.
C39_RolloverInstallsToday ==
    [][(Len(swaps') > Len(swaps) /\ todayPrices' # todayPrices)
          => /\ todayPrices'[1].Time = localMidnight(clock)
             /\ currentPlan'.Date = localMidnight(clock)]_vars

\* the same for the rollovers that follow a rollover of the day before, or
\* that are the first since the process started less than a day ago
C39_RolloverAfterRollover ==
    [][(/\ Len(swaps') > Len(swaps) /\ todayPrices' # todayPrices
        /\ \/ swaps # <<>> /\ localMidnight(swaps[Len(swaps)]) = localMidnight(clock) - DayMinutes
           \/ swaps = <<>> /\ todayPrices # <<>>
                /\ todayPrices[1].Time = localMidnight(clock) - DayMinutes)
          => /\ todayPrices'[1].Time = localMidnight(clock)
             /\ currentPlan'.Date = localMidnight(clock)]_vars

\* the minute at which the session of a trade ended
TradeEnd(tr) == tr.Timestamp + tr.DurationS \div 60

\* the last tick started a session of the given state
SessionStarted(st) == TickRead /\ lastTick.state = StateIdle /\ state = st

\* the last trade of the ledger records a session of the given action that
\* began and ended inside the window of ws in which the last tick ran
EndedInSameWindow(action, ws) ==
    /\ trades # <<>>
    /\ trades[Len(trades)].Action = action
    /\ \E k \in 1..Len(ws) :
          /\ ws[k].Start <= trades[Len(trades)].Timestamp
          /\ TradeEnd(trades[Len(trades)]) <= lastTick.now
          /\ lastTick.now < ws[k].End

====
